---- MODULE Spec2Model ----
(***************************************************************************)
(* DevToyNative: the smart-paste format detector (utils/smartPaste.js)     *)
(* and the paste router built on it.                                       *)
(*                                                                         *)
(* Texts are TLA+ strings.  A decoded byte string (the result of atob) is  *)
(* a sequence of character codes 0..255, and the host primitives the       *)
(* detector calls (String.prototype.trim, atob, JSON.parse, new RegExp)    *)
(* are computed on characters, as the host computes them.  Confidences are *)
(* kept as hundredths (0.95 is 95), since TLC has no reals.                *)
(***************************************************************************)
EXTENDS Integers, Sequences, FiniteSets, TLC

(***************************************************************************)
(* Characters                                                              *)
(***************************************************************************)

\* The printable ASCII characters in code order, in two runs around the grave
\* accent (code 96), which a TLA+ string cannot hold: PrintableLow[i] has code
\* 31 + i and PrintableHigh[i] has code 96 + i.
PrintableLow ==
  " !\"#$%&'()*+,-./0123456789:;<=>?@ABCDEFGHIJKLMNOPQRSTUVWXYZ[\\]^_"

PrintableHigh == "abcdefghijklmnopqrstuvwxyz{|}~"

CharAt(s, i) == SubSeq(s, i, i)

CharSet(s) == { CharAt(s, i) : i \in 1..Len(s) }

IndexIn(s, c) == CHOOSE i \in 1..Len(s) : CharAt(s, i) = c

CodeTable ==
  [ c \in CharSet(PrintableLow) \cup CharSet(PrintableHigh) |->
      IF c \in CharSet(PrintableLow)
      THEN 31 + IndexIn(PrintableLow, c)
      ELSE 96 + IndexIn(PrintableHigh, c) ]

\* The character code of a one-character string (String.prototype.charCodeAt).
CodeOf(c) ==
  CASE c = "\t" -> 9
    [] c = "\n" -> 10
    [] c = "\r" -> 13
    [] OTHER    -> CodeTable[c]

\* A text as the sequence of its character codes.
Codes(s) == [ i \in 1..Len(s) |-> CodeOf(CharAt(s, i)) ]

UpperChars == CharSet("ABCDEFGHIJKLMNOPQRSTUVWXYZ")
LowerChars == CharSet("abcdefghijklmnopqrstuvwxyz")
DigitChars == CharSet("0123456789")
AlnumChars == UpperChars \cup LowerChars \cup DigitChars

\* What \s matches and what String.prototype.trim strips, among the characters
\* of the model.
WhiteSpace == { " ", "\t", "\n", "\r" }

\* The characters "." of a regular expression does not match.
LineTerminators == { "\n", "\r" }

RECURSIVE TrimStart(_)
TrimStart(s) ==
  IF Len(s) > 0 /\ CharAt(s, 1) \in WhiteSpace
  THEN TrimStart(SubSeq(s, 2, Len(s)))
  ELSE s

RECURSIVE TrimEnd(_)
TrimEnd(s) ==
  IF Len(s) > 0 /\ CharAt(s, Len(s)) \in WhiteSpace
  THEN TrimEnd(SubSeq(s, 1, Len(s) - 1))
  ELSE s

\* String.prototype.trim
Trim(s) == TrimEnd(TrimStart(s))

AllIn(s, set) == \A i \in 1..Len(s) : CharAt(s, i) \in set

\* String.prototype.includes for a one-character needle
Includes(s, c) == \E i \in 1..Len(s) : CharAt(s, i) = c

\* The positions of character c in s, in increasing order.
RECURSIVE PositionsFrom(_, _, _)
PositionsFrom(s, c, i) ==
  IF i > Len(s) THEN << >>
  ELSE IF CharAt(s, i) = c THEN << i >> \o PositionsFrom(s, c, i + 1)
  ELSE PositionsFrom(s, c, i + 1)

\* String.prototype.split on a one-character separator.
RECURSIVE SplitFrom(_, _, _)
SplitFrom(s, c, start) ==
  LET rest == PositionsFrom(s, c, start) IN
  IF rest = << >> THEN << SubSeq(s, start, Len(s)) >>
  ELSE << SubSeq(s, start, rest[1] - 1) >> \o SplitFrom(s, c, rest[1] + 1)

Split(s, c) == SplitFrom(s, c, 1)

\* String.prototype.replace(/x/g, y) for one-character x and y.
RECURSIVE ReplaceAll(_, _, _)
ReplaceAll(s, x, y) ==
  IF Len(s) = 0 THEN s
  ELSE (IF CharAt(s, 1) = x THEN y ELSE CharAt(s, 1)) \o ReplaceAll(SubSeq(s, 2, Len(s)), x, y)

(***************************************************************************)
(* Host primitive: atob (forgiving Base64 decoding)                        *)
(***************************************************************************)

Base64Alphabet ==
  "ABCDEFGHIJKLMNOPQRSTUVWXYZabcdefghijklmnopqrstuvwxyz0123456789+/"

Base64Chars == CharSet(Base64Alphabet)

\* The 6-bit value of a Base64 character.
Base64Value == [ c \in Base64Chars |-> IndexIn(Base64Alphabet, c) - 1 ]

RECURSIVE RemoveWhiteSpace(_)
RemoveWhiteSpace(s) ==
  IF Len(s) = 0 THEN s
  ELSE (IF CharAt(s, 1) \in WhiteSpace THEN "" ELSE CharAt(s, 1))
         \o RemoveWhiteSpace(SubSeq(s, 2, Len(s)))

\* With a length that is a multiple of 4, one or two trailing "=" are dropped.
StripPadding(s) ==
  IF Len(s) > 0 /\ Len(s) % 4 = 0
  THEN IF Len(s) >= 2 /\ SubSeq(s, Len(s) - 1, Len(s)) = "=="
       THEN SubSeq(s, 1, Len(s) - 2)
       ELSE IF CharAt(s, Len(s)) = "="
            THEN SubSeq(s, 1, Len(s) - 1)
            ELSE s
  ELSE s

\* The bytes of data[i..]: four characters give three bytes, a final group of
\* three gives two bytes and a final group of two gives one.
RECURSIVE DecodeFrom(_, _)
DecodeFrom(data, i) ==
  LET left == Len(data) - i + 1
      v(k) == Base64Value[CharAt(data, i + k)]
  IN  IF left <= 0 THEN << >>
      ELSE IF left >= 4
      THEN LET n == v(0) * 262144 + v(1) * 4096 + v(2) * 64 + v(3)
           IN  << n \div 65536, (n \div 256) % 256, n % 256 >> \o DecodeFrom(data, i + 4)
      ELSE IF left = 3
      THEN LET n == v(0) * 4096 + v(1) * 64 + v(2)
           IN  << n \div 1024, (n \div 4) % 256 >>
      ELSE LET n == v(0) * 64 + v(1)
           IN  << n \div 16 >>

\* atob(s): [ok |-> FALSE] stands for the InvalidCharacterError it throws.
Atob(s) ==
  LET data == StripPadding(RemoveWhiteSpace(s)) IN
  IF Len(data) % 4 = 1 \/ ~AllIn(data, Base64Chars)
  THEN [ok |-> FALSE, bytes |-> << >>]
  ELSE [ok |-> TRUE, bytes |-> DecodeFrom(data, 1)]

\* The Base64 text of a sequence of bytes, with padding (btoa); it builds the
\* tokens of the input corpus.
RECURSIVE Btoa(_)
Btoa(bytes) ==
  LET e(k) == CharAt(Base64Alphabet, k + 1) IN
  IF Len(bytes) = 0 THEN ""
  ELSE IF Len(bytes) = 1
  THEN e(bytes[1] \div 4) \o e((bytes[1] % 4) * 16) \o "=="
  ELSE IF Len(bytes) = 2
  THEN e(bytes[1] \div 4) \o e((bytes[1] % 4) * 16 + bytes[2] \div 16)
         \o e((bytes[2] % 16) * 4) \o "="
  ELSE e(bytes[1] \div 4) \o e((bytes[1] % 4) * 16 + bytes[2] \div 16)
         \o e((bytes[2] % 16) * 4 + bytes[3] \div 64) \o e(bytes[3] % 64)
         \o Btoa(SubSeq(bytes, 4, Len(bytes)))

\* The unpadded URL-safe Base64 of a text, as JWT parts are written.
Base64Url(text) ==
  LET padded == Btoa(Codes(text))
      bare   == IF Len(padded) >= 2 /\ SubSeq(padded, Len(padded) - 1, Len(padded)) = "=="
                THEN SubSeq(padded, 1, Len(padded) - 2)
                ELSE IF Len(padded) >= 1 /\ CharAt(padded, Len(padded)) = "="
                     THEN SubSeq(padded, 1, Len(padded) - 1)
                     ELSE padded
  IN  ReplaceAll(ReplaceAll(bare, "+", "-"), "/", "_")

(***************************************************************************)
(* Host primitive: JSON.parse, on a sequence of character codes            *)
(*                                                                         *)
(* A parse gives [ok, pos, kind, truthy, str, members]: ok is FALSE for a  *)
(* SyntaxError, pos is the place after the value, kind is one of null,     *)
(* boolean, number, string, array, object, truthy is the value's           *)
(* JavaScript truthiness, str holds a string's characters and members an   *)
(* object's own properties in source order (a later one shadows an earlier *)
(* one of the same key).                                                   *)
(***************************************************************************)

JsonFail ==
  [ok |-> FALSE, pos |-> 0, kind |-> "none", truthy |-> FALSE, str |-> << >>, members |-> << >>]

JsonOk(pos, kind, truthy, str, members) ==
  [ok |-> TRUE, pos |-> pos, kind |-> kind, truthy |-> truthy, str |-> str, members |-> members]

\* The code at place i, or -1 past the end.
At(b, i) == IF i >= 1 /\ i <= Len(b) THEN b[i] ELSE -1

JsonWhiteSpace == { 32, 9, 10, 13 }

DigitCodes == 48..57

RECURSIVE SkipWs(_, _)
SkipWs(b, i) == IF At(b, i) \in JsonWhiteSpace THEN SkipWs(b, i + 1) ELSE i

RECURSIVE SkipDigits(_, _)
SkipDigits(b, i) == IF At(b, i) \in DigitCodes THEN SkipDigits(b, i + 1) ELSE i

\* Whether codes b[i..i+Len(word)-1] spell word.
Spells(b, i, word) ==
  /\ i + Len(word) - 1 <= Len(b)
  /\ \A k \in 1..Len(word) : b[i + k - 1] = CodeOf(CharAt(word, k))

\* number: -? (0 | [1-9][0-9]*) (. [0-9]+)? ([eE] [+-]? [0-9]+)?
\* It is falsy exactly when every digit of its mantissa is 0.
ParseNumber(b, i) ==
  LET i1 == IF At(b, i) = 45 THEN i + 1 ELSE i
      i2 == IF At(b, i1) = 48 THEN i1 + 1
            ELSE IF At(b, i1) \in 49..57 THEN SkipDigits(b, i1)
            ELSE 0
      hasFrac == i2 > 0 /\ At(b, i2) = 46
      i3 == IF hasFrac
            THEN (IF At(b, i2 + 1) \in DigitCodes THEN SkipDigits(b, i2 + 1) ELSE 0)
            ELSE i2
      hasExp == i3 > 0 /\ At(b, i3) \in { 101, 69 }
      e1 == IF At(b, i3 + 1) \in { 43, 45 } THEN i3 + 2 ELSE i3 + 1
      i4 == IF hasExp
            THEN (IF At(b, e1) \in DigitCodes THEN SkipDigits(b, e1) ELSE 0)
            ELSE i3
      zero == \A k \in i1..(i3 - 1) : b[k] \in { 48, 46 }
  IN  IF i2 = 0 \/ i3 = 0 \/ i4 = 0 THEN JsonFail
      ELSE JsonOk(i4, "number", ~zero, << >>, << >>)

HexValue(c) ==
  IF c \in 48..57 THEN c - 48
  ELSE IF c \in 65..70 THEN c - 55
  ELSE IF c \in 97..102 THEN c - 87
  ELSE -1

\* The character a one-letter escape stands for, or -1.
EscapeCode(c) ==
  CASE c = 34  -> 34
    [] c = 92  -> 92
    [] c = 47  -> 47
    [] c = 98  -> 8
    [] c = 102 -> 12
    [] c = 110 -> 10
    [] c = 114 -> 13
    [] c = 116 -> 9
    [] OTHER   -> -1

\* The rest of a string whose opening quote has been read; acc holds the
\* characters read so far.
RECURSIVE ParseStringRest(_, _, _)
ParseStringRest(b, i, acc) ==
  LET c == At(b, i) IN
  IF c = -1 \/ (c >= 0 /\ c < 32) THEN JsonFail
  ELSE IF c = 34 THEN JsonOk(i + 1, "string", acc # << >>, acc, << >>)
  ELSE IF c = 92
  THEN LET d == At(b, i + 1) IN
       IF d = 117
       THEN LET h(k) == HexValue(At(b, i + 1 + k)) IN
            IF h(1) < 0 \/ h(2) < 0 \/ h(3) < 0 \/ h(4) < 0 THEN JsonFail
            ELSE ParseStringRest(b, i + 6,
                   Append(acc, h(1) * 4096 + h(2) * 256 + h(3) * 16 + h(4)))
       ELSE IF EscapeCode(d) < 0 THEN JsonFail
       ELSE ParseStringRest(b, i + 2, Append(acc, EscapeCode(d)))
  ELSE ParseStringRest(b, i + 1, Append(acc, c))

RECURSIVE ParseValue(_, _)
RECURSIVE ParseElements(_, _)
RECURSIVE ParseMembers(_, _, _)

\* A value starting at place i (white space already skipped).
ParseValue(b, i) ==
  LET c == At(b, i) IN
  IF c = 123
  THEN LET j == SkipWs(b, i + 1) IN
       IF At(b, j) = 125 THEN JsonOk(j + 1, "object", TRUE, << >>, << >>)
       ELSE ParseMembers(b, j, << >>)
  ELSE IF c = 91
  THEN LET j == SkipWs(b, i + 1) IN
       IF At(b, j) = 93 THEN JsonOk(j + 1, "array", TRUE, << >>, << >>)
       ELSE ParseElements(b, j)
  ELSE IF c = 34 THEN ParseStringRest(b, i + 1, << >>)
  ELSE IF c = 45 \/ c \in DigitCodes THEN ParseNumber(b, i)
  ELSE IF Spells(b, i, "true") THEN JsonOk(i + 4, "boolean", TRUE, << >>, << >>)
  ELSE IF Spells(b, i, "false") THEN JsonOk(i + 5, "boolean", FALSE, << >>, << >>)
  ELSE IF Spells(b, i, "null") THEN JsonOk(i + 4, "null", FALSE, << >>, << >>)
  ELSE JsonFail

\* The elements of an array from place i, up to and including its "]".
ParseElements(b, i) ==
  LET Rest(j) ==
        IF At(b, j) = 44 THEN ParseElements(b, SkipWs(b, j + 1))
        ELSE IF At(b, j) = 93 THEN JsonOk(j + 1, "array", TRUE, << >>, << >>)
        ELSE JsonFail
      After(v) == IF ~v.ok THEN JsonFail ELSE Rest(SkipWs(b, v.pos))
  IN  After(ParseValue(b, i))

\* The members of an object from place i, up to and including its "}".
ParseMembers(b, i, acc) ==
  LET Rest(j2, more) ==
        IF At(b, j2) = 44 THEN ParseMembers(b, SkipWs(b, j2 + 1), more)
        ELSE IF At(b, j2) = 125 THEN JsonOk(j2 + 1, "object", TRUE, << >>, more)
        ELSE JsonFail
      AfterValue(k, v) ==
        IF ~v.ok THEN JsonFail
        ELSE Rest(SkipWs(b, v.pos),
                  Append(acc, [key |-> k.str, kind |-> v.kind,
                               truthy |-> v.truthy, str |-> v.str]))
      AfterName(k, j1) ==
        AfterValue(k, IF k.ok /\ At(b, j1) = 58
                      THEN ParseValue(b, SkipWs(b, j1 + 1)) ELSE JsonFail)
      Member(k) == AfterName(k, SkipWs(b, k.pos))
  IN  Member(IF At(b, i) = 34 THEN ParseStringRest(b, i + 1, << >>) ELSE JsonFail)

\* JSON.parse(text): one value with white space around it and nothing else.
JsonParse(b) ==
  LET Whole(v) == IF v.ok /\ SkipWs(b, v.pos) = Len(b) + 1 THEN v ELSE JsonFail
  IN  Whole(ParseValue(b, SkipWs(b, 1)))

(***************************************************************************)
(* Host primitive: new RegExp(pattern, flags)                              *)
(*                                                                         *)
(* Only whether the constructor throws a SyntaxError matters.  The checked *)
(* syntax: alternation, groups (capturing, (?: ), look-ahead (?= ) (?! ),  *)
(* look-behind (?<= ) (?<! ) and named (?<name> )), character classes with *)
(* ranges, escapes, the assertions ^ $ \b \B, the quantifiers * + ? {n}    *)
(* {n,} {n,m} and their lazy forms.  Without the u flag a brace that       *)
(* starts no quantifier and a lone "]" or "}" are literals; with it they   *)
(* are errors.                                                             *)
(***************************************************************************)

RegexFlags == CharSet("gimsuy")

\* The character at place i, or "" past the end.
ChAt(p, i) == IF i >= 1 /\ i <= Len(p) THEN CharAt(p, i) ELSE ""

RECURSIVE SkipDigitChars(_, _)
SkipDigitChars(p, i) == IF ChAt(p, i) \in DigitChars THEN SkipDigitChars(p, i + 1) ELSE i

RECURSIVE DigitsValue(_)
DigitsValue(d) ==
  IF Len(d) = 0 THEN 0
  ELSE DigitsValue(SubSeq(d, 1, Len(d) - 1)) * 10 + (CodeOf(CharAt(d, Len(d))) - 48)

\* A brace quantifier at place i (where "{" stands): [ok, next, ordered].
BraceQuantifier(p, i) ==
  LET a     == SkipDigitChars(p, i + 1)
      comma == ChAt(p, a) = ","
      b     == IF comma THEN SkipDigitChars(p, a + 1) ELSE a
      lo    == DigitsValue(SubSeq(p, i + 1, a - 1))
      hi    == DigitsValue(SubSeq(p, a + 1, b - 1))
  IN  IF a > i + 1 /\ ChAt(p, b) = "}"
      THEN [ok |-> TRUE, next |-> b + 1, ordered |-> ~comma \/ b = a + 1 \/ lo <= hi]
      ELSE [ok |-> FALSE, next |-> i, ordered |-> TRUE]

\* The place after the "]" closing the class whose members start at place i,
\* or 0 when the class is unterminated, ends in a lone backslash or holds a
\* range out of order.
RECURSIVE ClassEnd(_, _)
ClassEnd(p, i) ==
  LET c == ChAt(p, i) IN
  IF c = "" THEN 0
  ELSE IF c = "]" THEN i + 1
  ELSE IF c = "\\" THEN (IF ChAt(p, i + 1) = "" THEN 0 ELSE ClassEnd(p, i + 2))
  ELSE IF ChAt(p, i + 1) = "-" /\ ChAt(p, i + 2) \notin { "", "]" }
  THEN IF ChAt(p, i + 2) = "\\"
       THEN (IF ChAt(p, i + 3) = "" THEN 0 ELSE ClassEnd(p, i + 4))
       ELSE IF CodeOf(c) > CodeOf(ChAt(p, i + 2)) THEN 0
       ELSE ClassEnd(p, i + 3)
  ELSE ClassEnd(p, i + 1)

NameStart == UpperChars \cup LowerChars \cup { "_", "$" }

RECURSIVE SkipNameChars(_, _)
SkipNameChars(p, i) ==
  IF ChAt(p, i) \in NameStart \cup DigitChars THEN SkipNameChars(p, i + 1) ELSE i

\* The place after an optional lazy mark "?".
AfterLazy(p, i) == IF ChAt(p, i) = "?" THEN i + 1 ELSE i

\* Whether p[i..] is well formed.  groups is the stack of the open groups'
\* kinds, atom tells whether the term just read may take a quantifier.
RECURSIVE PatternOk(_, _, _, _, _)
PatternOk(p, i, groups, atom, u) ==
  LET c == ChAt(p, i) IN
  IF c = "" THEN groups = << >>
  ELSE IF c = "\\"
  THEN /\ ChAt(p, i + 1) # ""
       /\ PatternOk(p, i + 2, groups, ChAt(p, i + 1) \notin { "b", "B" }, u)
  ELSE IF c = "("
  THEN IF ChAt(p, i + 1) # "?" THEN PatternOk(p, i + 1, Append(groups, "group"), FALSE, u)
       ELSE IF ChAt(p, i + 2) = ":" THEN PatternOk(p, i + 3, Append(groups, "group"), FALSE, u)
       ELSE IF ChAt(p, i + 2) \in { "=", "!" }
       THEN PatternOk(p, i + 3, Append(groups, "lookahead"), FALSE, u)
       ELSE IF ChAt(p, i + 2) = "<" /\ ChAt(p, i + 3) \in { "=", "!" }
       THEN PatternOk(p, i + 4, Append(groups, "lookbehind"), FALSE, u)
       ELSE IF ChAt(p, i + 2) = "<" /\ ChAt(p, i + 3) \in NameStart
       THEN LET e == SkipNameChars(p, i + 3) IN
            /\ ChAt(p, e) = ">"
            /\ PatternOk(p, e + 1, Append(groups, "group"), FALSE, u)
       ELSE FALSE
  ELSE IF c = ")"
  THEN /\ groups # << >>
       /\ LET kind == groups[Len(groups)] IN
          PatternOk(p, i + 1, SubSeq(groups, 1, Len(groups) - 1),
                    kind = "group" \/ (kind = "lookahead" /\ ~u), u)
  ELSE IF c = "|" \/ c = "^" \/ c = "$" THEN PatternOk(p, i + 1, groups, FALSE, u)
  ELSE IF c \in { "*", "+", "?" }
  THEN atom /\ PatternOk(p, AfterLazy(p, i + 1), groups, FALSE, u)
  ELSE IF c = "{"
  THEN LET q == BraceQuantifier(p, i) IN
       IF q.ok THEN atom /\ q.ordered /\ PatternOk(p, AfterLazy(p, q.next), groups, FALSE, u)
       ELSE ~u /\ PatternOk(p, i + 1, groups, TRUE, u)
  ELSE IF c = "}" \/ c = "]" THEN ~u /\ PatternOk(p, i + 1, groups, TRUE, u)
  ELSE IF c = "["
  THEN LET e == ClassEnd(p, IF ChAt(p, i + 1) = "^" THEN i + 2 ELSE i + 1) IN
       e > 0 /\ PatternOk(p, e, groups, TRUE, u)
  ELSE PatternOk(p, i + 1, groups, TRUE, u)

\* Whether new RegExp(pattern, flags) returns; FALSE stands for its SyntaxError
\* (a flag outside gimsuy, a flag given twice, a malformed pattern).
RegExpCompiles(pattern, flags) ==
  /\ AllIn(flags, RegexFlags)
  /\ Cardinality(CharSet(flags)) = Len(flags)
  /\ PatternOk(pattern, 1, << >>, FALSE, Includes(flags, "u"))

(***************************************************************************)
(* Decimal numbers beyond TLC's integers (epoch milliseconds have 13       *)
(* digits): a natural number is the string of its decimal digits.          *)
(***************************************************************************)

RECURSIVE StripZeros(_)
StripZeros(d) ==
  IF Len(d) > 1 /\ CharAt(d, 1) = "0" THEN StripZeros(SubSeq(d, 2, Len(d))) ELSE d

DigitOf(d, i) == CodeOf(CharAt(d, i)) - 48

RECURSIVE DigitsLess(_, _, _)
DigitsLess(a, b, i) ==
  IF i > Len(a) THEN FALSE
  ELSE IF DigitOf(a, i) # DigitOf(b, i) THEN DigitOf(a, i) < DigitOf(b, i)
  ELSE DigitsLess(a, b, i + 1)

\* a < b
DecLess(a, b) ==
  LET x == StripZeros(a)
      y == StripZeros(b)
  IN  IF Len(x) # Len(y) THEN Len(x) < Len(y) ELSE DigitsLess(x, y, 1)

\* a > 0
DecPositive(a) == \E i \in 1..Len(a) : CharAt(a, i) # "0"

DigitChar(n) == CharAt("0123456789", n + 1)

\* The sum of a[1..i] and b[1..j] and a carry.
RECURSIVE DecAddFrom(_, _, _, _, _)
DecAddFrom(a, b, i, j, carry) ==
  IF i = 0 /\ j = 0 THEN (IF carry = 0 THEN "" ELSE DigitChar(carry))
  ELSE LET x   == IF i > 0 THEN DigitOf(a, i) ELSE 0
           y   == IF j > 0 THEN DigitOf(b, j) ELSE 0
           sum == x + y + carry
       IN  DecAddFrom(a, b, IF i > 0 THEN i - 1 ELSE 0, IF j > 0 THEN j - 1 ELSE 0, sum \div 10)
             \o DigitChar(sum % 10)

\* a + b
DecAdd(a, b) == DecAddFrom(a, b, Len(a), Len(b), 0)

(***************************************************************************)
(* The format rule set: DETECTION_PATTERNS                                 *)
(***************************************************************************)

\* What a validator gives: its value's truthiness, or threw when an exception
\* leaves it.
Returned(value) == [threw |-> FALSE, value |-> value]
Thrown == [threw |-> TRUE, value |-> FALSE]

Base64UrlChars == AlnumChars \cup { "_", "-" }

\* /^[A-Za-z0-9_-]+\.[A-Za-z0-9_-]+\.[A-Za-z0-9_-]*$/
JwtPattern(text) ==
  LET parts == Split(text, ".") IN
  /\ Len(parts) = 3
  /\ Len(parts[1]) > 0
  /\ Len(parts[2]) > 0
  /\ \A k \in 1..3 : AllIn(parts[k], Base64UrlChars)

\* x.name for a parsed JSON value x and name among typ, alg, iat, exp, sub:
\* a TypeError on null, the own property of an object, String.prototype.sub
\* on a string, undefined otherwise.
Undefined == [kind |-> "undefined", truthy |-> FALSE, str |-> << >>]

RECURSIVE LastMember(_, _, _)
LastMember(members, key, k) ==
  IF k = 0 THEN Undefined
  ELSE IF members[k].key = key
  THEN [kind |-> members[k].kind, truthy |-> members[k].truthy, str |-> members[k].str]
  ELSE LastMember(members, key, k - 1)

GetProperty(x, name) ==
  IF x.kind = "null" THEN [threw |-> TRUE, prop |-> Undefined]
  ELSE IF x.kind = "object"
  THEN [threw |-> FALSE, prop |-> LastMember(x.members, Codes(name), Len(x.members))]
  ELSE IF x.kind = "string" /\ name = "sub"
  THEN [threw |-> FALSE, prop |-> [kind |-> "function", truthy |-> TRUE, str |-> << >>]]
  ELSE [threw |-> FALSE, prop |-> Undefined]

\* a || b || ... over property reads, left to right: the first truthy read
\* ends it, a read that throws before that ends it with the exception.
RECURSIVE AnyTruthy(_, _)
AnyTruthy(reads, k) ==
  IF k > Len(reads) THEN Returned(FALSE)
  ELSE LET r == GetProperty(reads[k][1], reads[k][2]) IN
       IF r.threw THEN Thrown
       ELSE IF r.prop.truthy THEN Returned(TRUE)
       ELSE AnyTruthy(reads, k + 1)

\* The try block of jwt.validate.
JwtValidateTry(parts) ==
  LET Claims(header, payload, typ) ==
        IF ~header.ok \/ ~payload.ok THEN Thrown
        ELSE IF typ.threw THEN Thrown
        ELSE IF typ.prop.kind = "string" /\ typ.prop.str = Codes("JWT") THEN Returned(TRUE)
        ELSE AnyTruthy(<< <<header, "alg">>, <<payload, "iat">>,
                          <<payload, "exp">>, <<payload, "sub">> >>, 1)
      Parsed(header, payload) ==
        Claims(header, payload,
               IF header.ok THEN GetProperty(header, "typ")
               ELSE [threw |-> TRUE, prop |-> Undefined])
      Decoded(h, p) ==
        IF ~h.ok \/ ~p.ok THEN Thrown
        ELSE Parsed(JsonParse(h.bytes), JsonParse(p.bytes))
  IN  Decoded(Atob(ReplaceAll(ReplaceAll(parts[1], "-", "+"), "_", "/")),
              Atob(ReplaceAll(ReplaceAll(parts[2], "-", "+"), "_", "/")))

\* Faulty variant of the catch clause that lets the exception through:
\* property C5 tells it from Catch.
Rethrow(outcome) == outcome

\* JSON.parse(atob(parts[k].replace(/-/g, '+').replace(/_/g, '/'))) for part
\* k of the token in content: the parsed value, JsonFail when atob or
\* JSON.parse throws or the token has no such part.
DecodedPart(content, k) ==
  LET Parsed(d) == IF d.ok THEN JsonParse(d.bytes) ELSE JsonFail
      Part(parts) ==
        IF k > Len(parts) THEN JsonFail
        ELSE Parsed(Atob(ReplaceAll(ReplaceAll(parts[k], "-", "+"), "_", "/")))
  IN  Part(Split(Trim(content), "."))

\* try { ... } catch { return false; }
Catch(outcome) == IF outcome.threw THEN Returned(FALSE) ELSE outcome

JwtValidate(content) ==
  LET parts == Split(Trim(content), ".") IN
  IF Len(parts) # 3 THEN Returned(FALSE)
  ELSE Catch(JwtValidateTry(parts))

\* /^[\s]*[\[{]/
JsonPattern(text) ==
  LET rest == TrimStart(text) IN
  Len(rest) > 0 /\ CharAt(rest, 1) \in { "[", "{" }

JsonValidateTry(content) ==
  IF JsonParse(Codes(Trim(content))).ok THEN Returned(TRUE) ELSE Thrown

JsonValidate(content) == Catch(JsonValidateTry(content))

Base64PatternChars == AlnumChars \cup { "+", "/", "=", "_", "-" }

\* Faulty variant of the pattern with {10,} for {20,}: property C17 tells it
\* from Base64Pattern.
Base64PatternTenOrMore(text) == Len(text) >= 10 /\ AllIn(text, Base64PatternChars)

\* /^[A-Za-z0-9+/=_-]{20,}$/
Base64Pattern(text) == Len(text) >= 20 /\ AllIn(text, Base64PatternChars)

PrintableCount(bytes) == Cardinality({ k \in 1..Len(bytes) : bytes[k] >= 32 /\ bytes[k] < 127 })

\* Faulty variant of the try block that accepts a printable ratio of exactly
\* 0.7: property C16 tells it from Base64ValidateTry.
Base64ValidateAtLeast(trimmed) ==
  LET Decoded(d) ==
        IF ~d.ok THEN Thrown
        ELSE Returned(\/ (Len(d.bytes) > 0 /\ 10 * PrintableCount(d.bytes) >= 7 * Len(d.bytes))
                      \/ Len(d.bytes) < 50)
  IN  Decoded(Atob(ReplaceAll(ReplaceAll(trimmed, "-", "+"), "_", "/")))

\* The try block of base64.validate.  printableRatio > 0.7 is compared in
\* tenths; with nothing decoded the ratio is NaN and the comparison false.
Base64ValidateTry(trimmed) ==
  LET Decoded(d) ==
        IF ~d.ok THEN Thrown
        ELSE Returned(\/ (Len(d.bytes) > 0 /\ 10 * PrintableCount(d.bytes) > 7 * Len(d.bytes))
                      \/ Len(d.bytes) < 50)
  IN  Decoded(Atob(ReplaceAll(ReplaceAll(trimmed, "-", "+"), "_", "/")))

Base64Validate(content) ==
  LET trimmed == Trim(content) IN
  IF Includes(trimmed, ".") THEN Returned(FALSE)
  ELSE Catch(Base64ValidateTry(trimmed))

\* /^\d{10,13}$/
UnixTimestampPattern(text) == Len(text) >= 10 /\ Len(text) <= 13 /\ AllIn(text, DigitChars)

\* About fifty years, in seconds and in milliseconds.
FiftyYearsSeconds == "1577836800"
FiftyYearsMillis == "1577836800000"

\* Faulty variant of the validator that leaves the fifty years out of the
\* upper bound: property C11 tells it from UnixTimestampValidate.
UnixTimestampNoFiftyYears(content, now) ==
  LET num == Trim(content) IN
  IF Len(content) = 10
  THEN Returned(DecPositive(num) /\ DecLess(num \o "000", now))
  ELSE IF Len(content) = 13
  THEN Returned(DecPositive(num) /\ DecLess(num, now))
  ELSE Returned(FALSE)

\* Faulty variant of the validator with a plain else for the milliseconds:
\* property C18 tells it from UnixTimestampValidate.
UnixTimestampAnyLength(content, now) ==
  LET num == Trim(content) IN
  IF Len(content) = 10
  THEN Returned(DecPositive(num) /\ DecLess(num \o "000", DecAdd(now, FiftyYearsSeconds \o "000")))
  ELSE Returned(DecPositive(num) /\ DecLess(num, DecAdd(now, FiftyYearsMillis)))

\* now is Date.now(), in milliseconds.  num < now / 1000 + 1577836800 is
\* compared in milliseconds: 1000 * num < now + 1577836800000.
UnixTimestampValidate(content, now) ==
  LET num == Trim(content) IN
  IF Len(content) = 10
  THEN Returned(DecPositive(num) /\ DecLess(num \o "000", DecAdd(now, FiftyYearsSeconds \o "000")))
  ELSE IF Len(content) = 13
  THEN Returned(DecPositive(num) /\ DecLess(num, DecAdd(now, FiftyYearsMillis)))
  ELSE Returned(FALSE)

\* The place of the "/" that ends the pattern in /^\/(.*)\/([gimsuy]*)$/: the
\* closing "/" of the text, when it is not the first character, only flags
\* follow it and no line terminator stands before it; 0 when there is no match.
RegexClosingSlash(text) ==
  LET slashes == PositionsFrom(text, "/", 1)
      closing == IF slashes = << >> THEN 0 ELSE slashes[Len(slashes)]
  IN  IF /\ Len(text) >= 2
         /\ CharAt(text, 1) = "/"
         /\ closing >= 2
         /\ AllIn(SubSeq(text, closing + 1, Len(text)), RegexFlags)
         /\ \A k \in 2..(closing - 1) : CharAt(text, k) \notin LineTerminators
      THEN closing
      ELSE 0

\* /^\/.*\/[gimsuy]*$/
RegexPattern(text) == RegexClosingSlash(text) > 0

\* Faulty variant of the try block that compiles the pattern without its
\* flags: property C19 tells it from RegexValidateTry.
RegexValidateIgnoresFlags(content) ==
  LET text == Trim(content)
      closing == RegexClosingSlash(text)
  IN  IF closing = 0 THEN Returned(FALSE)
      ELSE IF RegExpCompiles(SubSeq(text, 2, closing - 1), "")
      THEN Returned(TRUE)
      ELSE Thrown

\* The try block of regex.validate.
RegexValidateTry(content) ==
  LET text == Trim(content)
      closing == RegexClosingSlash(text)
  IN  IF closing = 0 THEN Returned(FALSE)
      ELSE IF RegExpCompiles(SubSeq(text, 2, closing - 1), SubSeq(text, closing + 1, Len(text)))
      THEN Returned(TRUE)
      ELSE Thrown

RegexValidate(content) == Catch(RegexValidateTry(content))

\* confidence (in hundredths) and routed tool of each descriptor
DETECTION_PATTERNS ==
  [ jwt           |-> [confidence |-> 95, tool |-> "jwt"],
    json          |-> [confidence |-> 90, tool |-> "json"],
    base64        |-> [confidence |-> 70, tool |-> "base64"],
    unixTimestamp |-> [confidence |-> 85, tool |-> "timestamp"],
    regex         |-> [confidence |-> 90, tool |-> "regex"] ]

\* detection.pattern.test(text)
PatternTest(key, text) ==
  CASE key = "jwt"           -> JwtPattern(text)
    [] key = "json"          -> JsonPattern(text)
    [] key = "base64"        -> Base64Pattern(text)
    [] key = "unixTimestamp" -> UnixTimestampPattern(text)
    [] key = "regex"         -> RegexPattern(text)

\* detection.validate(text)
Validate(key, text, now) ==
  CASE key = "jwt"           -> JwtValidate(text)
    [] key = "json"          -> JsonValidate(text)
    [] key = "base64"        -> Base64Validate(text)
    [] key = "unixTimestamp" -> UnixTimestampValidate(text, now)
    [] key = "regex"         -> RegexValidate(text)

DETECTION_ORDER == << "jwt", "json", "unixTimestamp", "regex", "base64" >>

(***************************************************************************)
(* The classifier: detectFormat                                            *)
(***************************************************************************)

FormatKeys == { DETECTION_ORDER[k] : k \in 1..Len(DETECTION_ORDER) }

\* null, as detectFormat returns it
NoMatch == [format |-> "null", tool |-> "null", confidence |-> 0]

\* Faulty variant that calls the validator whatever the pattern says: property
\* C24 tells it from DescriptorOutcome.
DescriptorOutcomeNoPattern(key, trimmed, now) ==
  LET Validated(v) == IF v.threw THEN "threw" ELSE IF v.value THEN "valid" ELSE "invalid"
  IN  Validated(Validate(key, trimmed, now))

\* How one descriptor fares on the trimmed text: "rejected" by its pattern
\* (its validator is then not called), or validated with a truthy value
\* ("valid"), a falsy one ("invalid") or an exception ("threw").
DescriptorOutcome(key, trimmed, now) ==
  LET Validated(v) == IF v.threw THEN "threw" ELSE IF v.value THEN "valid" ELSE "invalid"
  IN  IF ~PatternTest(key, trimmed) THEN "rejected"
      ELSE Validated(Validate(key, trimmed, now))

\* The place x takes in a list sorted by falling confidence: after every
\* element that does not rank below it, so equal elements keep their order.
RECURSIVE InsertByConfidence(_, _)
InsertByConfidence(sorted, x) ==
  IF sorted = << >> THEN << x >>
  ELSE IF sorted[1].confidence >= x.confidence
  THEN << sorted[1] >> \o InsertByConfidence(Tail(sorted), x)
  ELSE << x >> \o sorted

RECURSIVE SortFrom(_, _, _)
SortFrom(results, k, sorted) ==
  IF k > Len(results) THEN sorted
  ELSE SortFrom(results, k + 1, InsertByConfidence(sorted, results[k]))

\* Faulty variant of the sort, comparator reversed (a.confidence -
\* b.confidence): property C1 tells it from SortByConfidence.
SortAscending(results) ==
  LET RECURSIVE Ins(_, _)
      Ins(sorted, x) ==
        IF sorted = << >> THEN << x >>
        ELSE IF sorted[1].confidence <= x.confidence
        THEN << sorted[1] >> \o Ins(Tail(sorted), x)
        ELSE << x >> \o sorted
      RECURSIVE From(_, _)
      From(k, sorted) ==
        IF k > Len(results) THEN sorted ELSE From(k + 1, Ins(sorted, results[k]))
  IN  From(1, << >>)

\* Faulty variant of the sort, not stable: of equal elements the later one
\* comes first.  Property C2 tells it from SortByConfidence.
SortLastWins(results) ==
  LET RECURSIVE Ins(_, _)
      Ins(sorted, x) ==
        IF sorted = << >> THEN << x >>
        ELSE IF sorted[1].confidence > x.confidence
        THEN << sorted[1] >> \o Ins(Tail(sorted), x)
        ELSE << x >> \o sorted
      RECURSIVE From(_, _)
      From(k, sorted) ==
        IF k > Len(results) THEN sorted ELSE From(k + 1, Ins(sorted, results[k]))
  IN  From(1, << >>)

\* results.sort((a, b) => b.confidence - a.confidence), a stable sort
SortByConfidence(results) == SortFrom(results, 1, << >>)

\* The loop over DETECTION_ORDER from descriptor k on.  acc carries the results
\* pushed so far, the descriptors whose pattern was tested and whose validator
\* was called, and whether an exception has left a validator (it ends the loop).
\* ruleSet is what the loop reads at the time of the call: the order and
\* each descriptor's tool and confidence.
RECURSIVE DetectLoopOver(_, _, _, _)
DetectLoopOver(ruleSet, outcome, k, acc) ==
  IF k > Len(ruleSet.order) \/ acc.threw THEN acc
  ELSE LET formatKey == ruleSet.order[k]
           detection == ruleSet.patterns[formatKey]
           entry     == [format |-> formatKey, tool |-> detection.tool,
                         confidence |-> detection.confidence]
       IN  DetectLoopOver(ruleSet, outcome, k + 1,
             [results   |-> IF outcome[formatKey] = "valid"
                            THEN Append(acc.results, entry) ELSE acc.results,
              tested    |-> Append(acc.tested, formatKey),
              validated |-> IF outcome[formatKey] # "rejected"
                            THEN Append(acc.validated, formatKey) ELSE acc.validated,
              threw     |-> outcome[formatKey] = "threw"])

\* The rule set as the module defines it
RuleSet == [order |-> DETECTION_ORDER, patterns |-> DETECTION_PATTERNS]

DetectLoop(outcome, k, acc) == DetectLoopOver(RuleSet, outcome, k, acc)

\* What one call of detectFormat did: the value returned (result), whether an
\* exception left it instead (threw), the outcome of each descriptor and the
\* trace of the loop.
Detection(result, threw, outcome, loop) ==
  [result |-> result, threw |-> threw, outcome |-> outcome,
   results |-> loop.results, tested |-> loop.tested, validated |-> loop.validated]

NoLoop == [results |-> << >>, tested |-> << >>, validated |-> << >>, threw |-> FALSE]

NotEvaluated == [k \in FormatKeys |-> "rejected"]

\* detectFormat from "const results = []" on, given each descriptor's outcome
ClassifyOver(ruleSet, outcome) ==
  LET Return(loop) ==
        IF loop.threw THEN Detection(NoMatch, TRUE, outcome, loop)
        ELSE IF Len(loop.results) > 0
        THEN Detection(SortByConfidence(loop.results)[1], FALSE, outcome, loop)
        ELSE Detection(NoMatch, FALSE, outcome, loop)
  IN  Return(DetectLoopOver(ruleSet, outcome, 1, NoLoop))

Classify(outcome) == ClassifyOver(RuleSet, outcome)

\* Faulty variant of detectFormat without its two early returns: property C3
\* tells it from detectFormat.
DetectFormatNoGuard(content, now) ==
  LET trimmed == Trim(content) IN
  Classify([key \in FormatKeys |-> DescriptorOutcome(key, trimmed, now)])

\* detectFormat(content) at time now, reading the rule set ruleSet
detectFormatOver(ruleSet, content, now) ==
  IF content = "" THEN Detection(NoMatch, FALSE, NotEvaluated, NoLoop)
  ELSE LET trimmed == Trim(content) IN
       IF Len(trimmed) = 0 THEN Detection(NoMatch, FALSE, NotEvaluated, NoLoop)
       ELSE ClassifyOver(ruleSet, [key \in FormatKeys |-> DescriptorOutcome(key, trimmed, now)])

\* detectFormat(content) at time now
detectFormat(content, now) == detectFormatOver(RuleSet, content, now)

getFormatDisplayName(format) ==
  CASE format = "jwt"           -> "JWT Token"
    [] format = "json"          -> "JSON"
    [] format = "base64"        -> "Base64"
    [] format = "unixTimestamp" -> "Unix Timestamp"
    [] format = "regex"         -> "Regular Expression"
    [] OTHER                    -> format

getToolDisplayName(tool) ==
  CASE tool = "jwt"       -> "JWT Decoder"
    [] tool = "json"      -> "JSON Formatter"
    [] tool = "base64"    -> "Base64 Encoder/Decoder"
    [] tool = "timestamp" -> "Unix Time Converter"
    [] tool = "regex"     -> "Regex Tester"
    [] OTHER              -> tool

(***************************************************************************)
(* Paste events                                                            *)
(***************************************************************************)

\* A paste target: its tag name, whether its class list holds "paste-input",
\* and its id ("" when it has none).
Element(tagName, pasteInput, id) == [tagName |-> tagName, pasteInput |-> pasteInput, id |-> id]

\* The clipboard of a paste event: present is FALSE when the event carries no
\* clipboardData (getData is then not called and content is undefined).
Clipboard(present, text) == [present |-> present, text |-> text]

(***************************************************************************)
(* Inputs                                                                  *)
(***************************************************************************)

\* The longest run of white space put before and after a text.
MaxPad == 1

\* The readings of the clock (Date.now(), in milliseconds): midnight UTC of
\* 2025-11-05 and of the next day.
Instants == << "1762300800000", "1762387200000" >>

RECURSIVE PadsOfLength(_)
PadsOfLength(n) ==
  IF n = 0 THEN { "" }
  ELSE { p \o c : p \in PadsOfLength(n - 1), c \in { " ", "\n" } }

Pads == UNION { PadsOfLength(n) : n \in 0..MaxPad }

Padded(texts) == { lead \o t \o trail : lead \in Pads, t \in texts, trail \in Pads }

\* JSON texts a token's header is the encoding of
Headers ==
  { "{\"alg\":\"HS256\",\"typ\":\"JWT\"}", "{\"typ\":\"JWT\"}", "{\"typ\":\"jwt\"}",
    "{\"alg\":\"none\"}", "{\"alg\":\"\"}", "{\"alg\":0}", "{\"alg\":null}",
    "{\"alg\":false,\"alg\":\"x\"}", "{\"x\":1}", "{}", "null", "5", "\"x\"", "[]", "{bad" }

\* JSON texts a token's payload is the encoding of
Payloads ==
  { "{\"sub\":\"1234567890\"}", "{\"iat\":1700000000}", "{\"exp\":0}", "{\"iat\":0.0}",
    "{\"sub\":\"\"}", "{\"sub\":false}", "{\"x\":1}", "{}", "null", "\"x\"", "7", "[1]",
    "{bad" }

Tokens ==
  { Base64Url(h) \o "." \o Base64Url(p) \o "." \o sig :
      h \in Headers, p \in Payloads, sig \in { "", "signature" } }

\* Byte strings around the thresholds of the Base64 validator: n bytes of
\* which the first k are printable ("A") and the others are 0.
Bytes(n, k) == [ i \in 1..n |-> IF i <= k THEN 65 ELSE 0 ]

\* The same with "~" (code 126) as the printable byte.
TildeBytes(n, k) == [ i \in 1..n |-> IF i <= k THEN 126 ELSE 0 ]

Base64Texts ==
  { "SGVsbG8sIFdvcmxkIQ==", "SGVsbG8sIFdvcmxkIQ", "SGVsbG8sIFdvcmxkIQ=",
    "SGVsbG8_IFdvcmxkIT8-Pz4_", "====================", "AAAAAAAAAAAAAAAAAAAAA",
    "AAAAAAAAAAAA=AAAAAAAAAAA", "12345678901234567890", "abcdefghijklmnopqrstuvwxyz",
    Btoa(Codes("The quick brown fox jumps over the lazy dog, twice over.")),
    Btoa(Bytes(49, 0)), Btoa(Bytes(50, 0)), Btoa(Bytes(50, 35)), Btoa(Bytes(50, 36)),
    Btoa(Bytes(60, 42)), Btoa(Bytes(60, 43)),
    Btoa(TildeBytes(50, 35)), Btoa(TildeBytes(50, 36)) }

\* Digit strings; the ones in 334... stand around now + fifty years for the
\* two instants, in seconds and in milliseconds, the ones in 17623... are
\* the first instant itself.
TimestampTexts ==
  { "1700000000", "0000000000", "0000000001", "9999999999", "17000000000", "170000000000",
    "1700000000000", "0000000000000", "9999999999999", "17000000000000", "170000000",
    "3340137599", "3340137600", "3340223999", "3340224000",
    "3340137599999", "3340137600000", "3340223999999", "3340224000000",
    "1762300800", "1762300800000" }

\* Regex literals, some of them also Base64 by their shape
RegexTexts ==
  { "/^[a-z]+$/i", "//", "/", "/a/", "/abc/gi", "/abc/gg", "/(/", "/a/x", "/[a-z/", "/+a/",
    "/a{2,1}/", "/abc", "abc/", "/a/b/g", "/a\nb/", "/a{1/u", "/(?=a)*/",
    "/abcdefghijklmnopqrst/", "/abcdefghijklmnopqrs/gi", "/+abcdefghijklmnopqrst/",
    "/abcdefghijklmnopqrs/gg" }

JsonTexts ==
  { "{\"a\":1}", "[1,2,3]", "{\"a\":", "[1,2", "{}", "[]", "{\"a\":1}x", "{a:1}",
    "{\"a\":[1,{\"b\":null}],\"c\":\"d\\n\"}", "[-0.5e+3,true,false]", "true", "\"text\"" }

OtherTexts ==
  { "", "hello", "not a recognizable format at all", "a.b.c", "a.b", "a.b.c.d", "a..c",
    "eyJhbGciOiJIUzI1NiJ9.e30", "12345" }

\* One or two texts of each kind, to be given with white space around them
PaddedTexts ==
  { "", "hello", "a.b.c", "{\"a\":1}", "[1,2", "1700000000", "17000000000", "1700000000000",
    "/^[a-z]+$/i", "/abc/gg", "SGVsbG8sIFdvcmxkIQ==", "/abcdefghijklmnopqrst/",
    "eyJhbGciOiJIUzI1NiIsInR5cCI6IkpXVCJ9.eyJzdWIiOiIxMjM0NTY3ODkwIn0.signature" }

\* Every text the classifier is given
Corpus ==
  Base64Texts \cup TimestampTexts \cup RegexTexts \cup JsonTexts \cup OtherTexts
    \cup Tokens \cup Padded(PaddedTexts)

\* The texts the router is given: one or two of each kind
RouterTexts ==
  { "", " ", "hello", "{\"a\":1}", " {\"a\":1}\n", "1700000000", "/^[a-z]+$/i",
    "SGVsbG8sIFdvcmxkIQ==", "/abcdefghijklmnopqrst/",
    "eyJhbGciOiJIUzI1NiIsInR5cCI6IkpXVCJ9.eyJzdWIiOiIxMjM0NTY3ODkwIn0.signature" }

\* The elements a paste event is aimed at
Targets ==
  { Element("TEXTAREA", TRUE, "smartPasteInput"), Element("INPUT", TRUE, ""),
    Element("INPUT", FALSE, "smartPasteInput"), Element("TEXTAREA", FALSE, "jsonInput"),
    Element("DIV", FALSE, "toolTitle"), Element("BODY", FALSE, "") }

NoElement == Element("", FALSE, "")

Clipboards == { Clipboard(TRUE, t) : t \in RouterTexts } \cup { Clipboard(FALSE, "") }

\* Every text detectFormat is called on: the input texts and what the
\* application's input listener makes of them.
Texts == Corpus \cup RouterTexts \cup { Trim(t) : t \in RouterTexts }

\* detectFormat is a function of the text and the clock alone; its value on
\* every text at every instant, computed once.
DetectionTable ==
  [ p \in Texts \X { Instants[k] : k \in 1..Len(Instants) } |-> detectFormat(p[1], p[2]) ]
    @@ << >>

\* The call detectFormat(content) made at time now
Detect(content, now) == DetectionTable[<< content, now >>]

(***************************************************************************)
(* The paste router: class SmartPaste                                      *)
(***************************************************************************)

Routers == { 1, 2 }

\* The router the application builds in setupSmartPaste.
AppRouter == 1

NoPayload ==
  [content |-> "", format |-> "", tool |-> "", confidence |-> 0,
   displayName |-> "", toolName |-> ""]

\* One invocation of a callback of router r; threw tells whether the callback
\* ended with an exception.
Call(r, fn, payload, threw) == [router |-> r, fn |-> fn, payload |-> payload, threw |-> threw]

\* One call of detectFormat made on behalf of router r.
Run(r, content, d) ==
  [router |-> r, content |-> content, result |-> d.result, threw |-> d.threw,
   outcome |-> d.outcome, results |-> d.results, tested |-> d.tested,
   validated |-> d.validated]

\* What a method did: the classifier runs, the callback invocations in order,
\* and threw, TRUE when an exception leaves the method.
Effect(runs, calls, threw) == [runs |-> runs, calls |-> calls, threw |-> threw]

NoEffect == Effect(<< >>, << >>, FALSE)

\* Faulty variant of the enriched result that routes by the format key:
\* property C12 tells it from Enriched.
EnrichedByFormat(content, detection) ==
  [content |-> content, format |-> detection.format, tool |-> detection.format,
   confidence |-> detection.confidence,
   displayName |-> getFormatDisplayName(detection.format),
   toolName |-> getToolDisplayName(detection.tool)]

Enriched(content, detection) ==
  [content |-> content, format |-> detection.format, tool |-> detection.tool,
   confidence |-> detection.confidence,
   displayName |-> getFormatDisplayName(detection.format),
   toolName |-> getToolDisplayName(detection.tool)]

Fallback(content) ==
  [content |-> content, format |-> "unknown", tool |-> "json", confidence |-> 0,
   displayName |-> "Unknown Format", toolName |-> "JSON Formatter"]

\* Faulty variant of the catch clause that swallows the exception without
\* telling onError: property C26 tells it from CatchIntoOnError.
CatchSwallows(r, runs, calls, onErrorThrows) == Effect(runs, calls, FALSE)

\* The catch clause of processContent: onError is invoked, and its own
\* exception, if any, leaves processContent.
CatchIntoOnError(r, runs, calls, onErrorThrows) ==
  Effect(runs, Append(calls, Call(r, "onError", NoPayload, onErrorThrows)), onErrorThrows)

\* Faulty variant of processContent that drops a text the classifier does not
\* recognise: property C4 tells it from processContent.
ProcessContentDropsUnknown(r, content, now, onDetectThrows, onErrorThrows) ==
  LET Deliver(runs, delivered) ==
        IF onDetectThrows THEN CatchIntoOnError(r, runs, delivered, onErrorThrows)
        ELSE Effect(runs, delivered, FALSE)
      Detected(d) ==
        IF d.threw THEN CatchIntoOnError(r, << Run(r, content, d) >>, << >>, onErrorThrows)
        ELSE IF d.result = NoMatch THEN Effect(<< Run(r, content, d) >>, << >>, FALSE)
        ELSE Deliver(<< Run(r, content, d) >>,
                     << Call(r, "onDetect", Enriched(content, d.result), onDetectThrows) >>)
  IN  Detected(Detect(content, now))

\* Faulty variant of processContent without its try and catch: an exception
\* of onDetect leaves it.  Property C6 tells it from processContent.
ProcessContentNoCatch(r, content, now, onDetectThrows, onErrorThrows) ==
  LET Detected(d) ==
        Effect(<< Run(r, content, d) >>,
               << Call(r, "onDetect",
                       IF d.result # NoMatch THEN Enriched(content, d.result)
                       ELSE Fallback(content),
                       onDetectThrows) >>,
               onDetectThrows)
  IN  Detected(Detect(content, now))

\* Faulty variant of processContent that hands on the trimmed text: property
\* C13 tells it from processContent.
ProcessContentTrims(r, content, now, onDetectThrows, onErrorThrows) ==
  LET Deliver(runs, delivered) ==
        IF onDetectThrows THEN CatchIntoOnError(r, runs, delivered, onErrorThrows)
        ELSE Effect(runs, delivered, FALSE)
      Detected(d) ==
        IF d.threw THEN CatchIntoOnError(r, << Run(r, content, d) >>, << >>, onErrorThrows)
        ELSE Deliver(<< Run(r, content, d) >>,
                     << Call(r, "onDetect",
                             IF d.result # NoMatch THEN Enriched(Trim(content), d.result)
                             ELSE Fallback(Trim(content)),
                             onDetectThrows) >>)
  IN  Detected(Detect(content, now))

\* processContent(content) on router r at time now.  onDetectThrows and
\* onErrorThrows tell how the registered callbacks end when invoked.
processContent(r, content, now, onDetectThrows, onErrorThrows) ==
  LET Deliver(runs, delivered) ==
        IF onDetectThrows THEN CatchIntoOnError(r, runs, delivered, onErrorThrows)
        ELSE Effect(runs, delivered, FALSE)
      Detected(d) ==
        IF d.threw THEN CatchIntoOnError(r, << Run(r, content, d) >>, << >>, onErrorThrows)
        ELSE Deliver(<< Run(r, content, d) >>,
                     << Call(r, "onDetect",
                             IF d.result # NoMatch THEN Enriched(content, d.result)
                             ELSE Fallback(content),
                             onDetectThrows) >>)
  IN  Detected(Detect(content, now))

\* Faulty variant of analyze that also delivers the result to onDetect:
\* property C9 tells it from analyze.
AnalyzeDelivers(r, content, now) ==
  LET Detected(d) ==
        [ret |-> d.result,
         effect |-> Effect(<< Run(r, content, d) >>,
                           << Call(r, "onDetect",
                                   IF d.result # NoMatch THEN Enriched(content, d.result)
                                   ELSE Fallback(content),
                                   FALSE) >>,
                           FALSE)]
  IN  Detected(Detect(content, now))

\* analyze(content): the value returned and what else it did
analyze(r, content, now) ==
  LET Detected(d) ==
        [ret |-> d.result, effect |-> Effect(<< Run(r, content, d) >>, << >>, d.threw)]
  IN  Detected(Detect(content, now))

\* String.prototype.includes
RECURSIVE ContainsFrom(_, _, _)
ContainsFrom(s, sub, i) ==
  IF i + Len(sub) - 1 > Len(s) THEN FALSE
  ELSE IF SubSeq(s, i, i + Len(sub) - 1) = sub THEN TRUE
  ELSE ContainsFrom(s, sub, i + 1)

Contains(s, sub) == ContainsFrom(s, sub, 1)

\* Faulty variant of handleGlobalPaste that ignores every INPUT and TEXTAREA,
\* the smart-paste field included: property C10 tells it from handleGlobalPaste.
HandlePasteNoSmartField(r, isEnabled, target, clipboard, now, onDetectThrows, onErrorThrows) ==
  IF ~isEnabled THEN NoEffect
  ELSE IF target.tagName \in { "INPUT", "TEXTAREA" } THEN NoEffect
  ELSE IF clipboard.present /\ clipboard.text # ""
  THEN processContent(r, clipboard.text, now, onDetectThrows, onErrorThrows)
  ELSE NoEffect

\* handleGlobalPaste(event) on router r, whose enabled flag is isEnabled
handleGlobalPaste(r, isEnabled, target, clipboard, now, onDetectThrows, onErrorThrows) ==
  IF ~isEnabled THEN NoEffect
  ELSE IF /\ target.tagName \in { "INPUT", "TEXTAREA" }
          /\ ~target.pasteInput
          /\ ~Contains(target.id, "smart")
  THEN NoEffect
  ELSE IF clipboard.present /\ clipboard.text # ""
  THEN processContent(r, clipboard.text, now, onDetectThrows, onErrorThrows)
  ELSE NoEffect

\* Faulty variant of addEventListener that registers a handler once more on
\* every call, as it would were the handler bound anew in enable(): property
\* C25 tells it from AddListener.
AddListenerAgain(list, r) == Append(list, r)

\* document.addEventListener("paste", handler): a handler already registered
\* is not registered again.
AddListener(list, r) ==
  IF \E k \in 1..Len(list) : list[k] = r THEN list ELSE Append(list, r)

\* document.removeEventListener("paste", handler)
RemoveListener(list, r) == SelectSeq(list, LAMBDA x : x # r)

\* Faulty variant of enable() that installs its handler as the document's only
\* paste listener, as document.onpaste = handler would: property C20 tells it
\* from enable.
EnableReplacesListeners(r, list) == [enabled |-> TRUE, listeners |-> << r >>]

\* enable(): the new enabled flag of router r and the document's paste listeners
enable(r, list) == [enabled |-> TRUE, listeners |-> AddListener(list, r)]

\* Faulty variant of disable() that leaves the router as it is: property C7
\* tells it from disable.
DisableKeepsListening(r, list) == [enabled |-> TRUE, listeners |-> list]

\* disable()
disable(r, list) == [enabled |-> FALSE, listeners |-> RemoveListener(list, r)]

\* The "input" listener setupSmartPaste puts on the smart-paste field: the
\* trimmed value, when not empty, goes to processContent of the app's router.
smartPasteInputListener(value, now, onDetectThrows, onErrorThrows) ==
  LET content == Trim(value) IN
  IF content # "" THEN processContent(AppRouter, content, now, onDetectThrows, onErrorThrows)
  ELSE NoEffect

(***************************************************************************)
(* The service worker: its fetch handler                                   *)
(***************************************************************************)

\* The paths of the site; "./index.html" in the worker is "/index.html".
Urls == { "/", "/index.html", "/app.js" }

IndexHtml == "/index.html"

\* event.request: its method, the scheme and origin of its url, its path and
\* its mode
Request(method, scheme, sameOrigin, path, mode) ==
  [method |-> method, scheme |-> scheme, sameOrigin |-> sameOrigin, path |-> path, mode |-> mode]

\* The requests the page makes: navigations to the two documents, the script,
\* a form post, a request to another site and one of a browser extension.
Requests ==
  { Request("GET", "http", TRUE, "/", "navigate"),
    Request("GET", "http", TRUE, IndexHtml, "navigate"),
    Request("GET", "http", TRUE, "/app.js", "no-cors"),
    Request("POST", "http", TRUE, "/", "navigate"),
    Request("GET", "https", FALSE, "/app.js", "no-cors"),
    Request("GET", "chrome-extension", FALSE, "/app.js", "no-cors") }

\* How fetch(event.request) ends: rejected (status 0), or resolved with a
\* response of the given status.
NetworkOutcomes == { 0, 200, 204, 404 }

Response(status, version) == [status |-> status, version |-> version]

\* undefined: respondWith is given no response
NoResponse == Response(0, 0)

\* caches.match(url): the stored response, or undefined
CachesMatch(store, url) == IF store[url] # 0 THEN Response(200, store[url]) ELSE NoResponse

\* In the record of what the handler did, network is the outcome of
\* fetch(event.request), or NotAsked when the handler did not call it.
NotAsked == -1

\* What the handler did: whether it called respondWith, how the network
\* answered, where the response came from, the response, and whether a cache
\* update was started.
Answered(request, network, from, response, put) ==
  [intercepted |-> TRUE, request |-> request, network |-> network, from |-> from,
   response |-> response, put |-> put]

\* The handler returned without respondWith: the browser handles the request.
NotIntercepted(request) ==
  [intercepted |-> FALSE, request |-> request, network |-> NotAsked, from |-> "browser",
   response |-> NoResponse, put |-> FALSE]

\* The catch branch: the cached copy of the request, else for a navigation
\* whatever caches.match("./index.html") gives, else the Offline response.
NetworkFailed(request, store) ==
  IF CachesMatch(store, request.path) # NoResponse
  THEN Answered(request, 0, "cache", CachesMatch(store, request.path), FALSE)
  ELSE IF request.mode = "navigate"
  THEN Answered(request, 0,
                IF CachesMatch(store, IndexHtml) # NoResponse THEN "index.html" ELSE "nothing",
                CachesMatch(store, IndexHtml), FALSE)
  ELSE Answered(request, 0, "offline", Response(503, 0), FALSE)

\* The then branch: a response of status 200 is cloned and a cache update
\* started; the network's response is returned.
NetworkAnswered(request, status, version) ==
  Answered(request, status, "network", Response(status, version), status = 200)

\* Faulty variant of the handler that looks into the cache first and asks the
\* network only when there is no cached copy: property C23 tells it from
\* FetchHandler.
FetchHandlerCacheFirst(request, outcome, store, version) ==
  IF request.method # "GET" THEN NotIntercepted(request)
  ELSE IF ~request.sameOrigin THEN NotIntercepted(request)
  ELSE IF request.scheme \notin { "http", "https" } THEN NotIntercepted(request)
  ELSE IF CachesMatch(store, request.path) # NoResponse
  THEN Answered(request, NotAsked, "cache", CachesMatch(store, request.path), FALSE)
  ELSE IF outcome = 0 THEN NetworkFailed(request, store)
  ELSE NetworkAnswered(request, outcome, version)

\* The fetch listener on a request, when fetch ends with outcome, the cache
\* holds store and the network serves version.
FetchHandler(request, outcome, store, version) ==
  IF request.method # "GET" THEN NotIntercepted(request)
  ELSE IF ~request.sameOrigin THEN NotIntercepted(request)
  ELSE IF request.scheme \notin { "http", "https" } THEN NotIntercepted(request)
  ELSE IF outcome = 0 THEN NetworkFailed(request, store)
  ELSE NetworkAnswered(request, outcome, version)

(***************************************************************************)
(* The tools' histories in localStorage                                    *)
(***************************************************************************)

\* history.maxItems
maxItems == 50

\* The tools whose history is written
HistoryTools == { "json", "regex" }

\* An item as history.add stores it: the caller's fields (its input, a
\* string, here a number standing for it) and the time of the call.
\* JSON.stringify and JSON.parse give a string and a number back as they were.
HistoryItem(input, timestamp) == [input |-> input, timestamp |-> timestamp]

\* filtered.length = maxItems
Truncated(items, limit) == IF Len(items) > limit THEN SubSeq(items, 1, limit) ELSE items

\* Faulty variant of history.add that compares the items themselves
\* (i !== item), never the same object, and so removes no duplicate: property
\* C28 tells it from HistoryAdded.
HistoryAddedNoDedup(items, input, now) ==
  Truncated(<< HistoryItem(input, now) >> \o items, maxItems)

\* The array history.add hands to storage.set: the stored items without
\* those of the same input, the new item put first, cut to maxItems.
HistoryAdded(items, input, now) ==
  Truncated(<< HistoryItem(input, now) >> \o SelectSeq(items, LAMBDA i : i.input # input),
            maxItems)

\* storage.set: the value is stored, unless localStorage.setItem throws,
\* which is logged and leaves the stored value as it was.
StorageSet(stored, value, written) == IF written THEN value ELSE stored

(***************************************************************************)
(* The application: its tools and their timers                             *)
(***************************************************************************)

\* How many tool instances are referenced at a time, by the application or
\* by a timer that has not fired yet
MaxInstances == 2

\* The own properties of toolDefinitions
ToolKeys == { "json", "jwt", "regex", "timestamp", "base64" }

\* Names every object inherits from Object.prototype
InheritedKeys == { "constructor", "toString" }

\* The keys switchTool is called with
SwitchKeys == ToolKeys \cup InheritedKeys \cup { "markdown" }

\* this.toolDefinitions[toolKey]: a definition for the five tools, a function
\* of Object.prototype (truthy, with a name and without a class) for an
\* inherited name, undefined otherwise.
ToolDefinition(toolKey) ==
  IF toolKey \in ToolKeys THEN "definition"
  ELSE IF toolKey \in InheritedKeys THEN "inherited"
  ELSE "undefined"

\* A tool instance: its tool, whether destroy() has been called on it, the
\* active class of its live toggle, whether its liveInterval field holds a
\* timer, how many of its interval timers are active, and whether the
\* timeout of its debounced input handler is pending.
Instance(tool, destroyed, liveActive, liveInterval, intervals, pending) ==
  [tool |-> tool, destroyed |-> destroyed, liveActive |-> liveActive,
   liveInterval |-> liveInterval, intervals |-> intervals, pending |-> pending]

\* A place of instances that holds no instance
NoInstance == Instance("", TRUE, FALSE, FALSE, 0, FALSE)

\* startLiveUpdate(): a new interval timer, kept in liveInterval
startLiveUpdate(i) == [i EXCEPT !.liveInterval = TRUE, !.intervals = @ + 1]

\* Faulty variant of stopLiveUpdate that forgets the timer without clearing
\* it: property C29 tells it from stopLiveUpdate.
StopLiveUpdateKeepsTimer(i) == [i EXCEPT !.liveInterval = FALSE]

\* stopLiveUpdate(): the timer in liveInterval, if any, is cleared
stopLiveUpdate(i) ==
  IF i.liveInterval THEN [i EXCEPT !.liveInterval = FALSE, !.intervals = @ - 1] ELSE i

\* new definition.class(container): render and attachEvents; the Unix time
\* converter renders its live toggle active and so starts its live update.
NewTool(tool) ==
  IF tool = "timestamp"
  THEN startLiveUpdate(Instance(tool, FALSE, TRUE, FALSE, 0, FALSE))
  ELSE Instance(tool, FALSE, FALSE, FALSE, 0, FALSE)

\* destroy(): the Unix time converter stops its live update; every tool
\* empties its container.  No tool clears its debounce timeout.
destroy(i) ==
  IF i.tool = "timestamp" THEN [stopLiveUpdate(i) EXCEPT !.destroyed = TRUE]
  ELSE [i EXCEPT !.destroyed = TRUE]

\* A click on the live toggle of the Unix time converter
liveToggleClick(i) ==
  IF ~i.liveActive THEN startLiveUpdate([i EXCEPT !.liveActive = TRUE])
  ELSE stopLiveUpdate([i EXCEPT !.liveActive = FALSE])

\* An input event on a tool's debounced field: clearTimeout(debounceTimer),
\* then debounceTimer = setTimeout(...)
inputEvent(i) == [i EXCEPT !.pending = TRUE]

\* The application: currentTool, currentToolInstance, the instances and the
\* stored lastTool preference
App(tool, place, all, preference) ==
  [currentTool |-> tool, current |-> place, instances |-> all, lastTool |-> preference]

\* The current instance destroyed, as switchTool does before it creates the
\* next one
PreviousDestroyed(app) ==
  IF app.current = 0 THEN app
  ELSE [app EXCEPT !.instances[app.current] = destroy(app.instances[app.current])]

\* The places of instances no timer refers to
Unreferenced(all) == { p \in 1..MaxInstances : all[p].intervals = 0 /\ ~all[p].pending }

\* Where a new instance goes once the application has let go of the previous
\* one: the first place no timer refers to, 0 when there is none.
NewPlace(app) ==
  IF Unreferenced(app.instances) = { } THEN 0
  ELSE CHOOSE p \in Unreferenced(app.instances) : \A q \in Unreferenced(app.instances) : p <= q

\* An instance neither the application nor a timer refers to is gone.
Collected(app) ==
  [app EXCEPT !.instances =
     [p \in 1..MaxInstances |->
        IF p # app.current /\ p \in Unreferenced(app.instances) THEN NoInstance
        ELSE app.instances[p]]]

\* switchTool(toolKey) from "Create tool instance" on, the previous instance
\* destroyed; written tells whether the write of the preference to
\* localStorage goes through.
ToolCreated(app, toolKey, written) ==
  App(toolKey, NewPlace(app),
      [app.instances EXCEPT ![NewPlace(app)] = NewTool(toolKey)],
      StorageSet(app.lastTool, toolKey, written))

\* switchTool(toolKey): an undefined definition returns at once; an inherited
\* one passes the test, the previous instance is destroyed and
\* new definition.class(...) throws; a tool's definition replaces the instance.
switchTool(app, toolKey, written) ==
  IF ToolDefinition(toolKey) = "undefined" THEN app
  ELSE IF ToolDefinition(toolKey) = "inherited" THEN PreviousDestroyed(app)
  ELSE Collected(ToolCreated(PreviousDestroyed(app), toolKey, written))

\* The application when its constructor has run: init() has switched to the
\* lastTool preference, json when nothing is stored.
Started ==
  switchTool(App("null", 0, [p \in 1..MaxInstances |-> NoInstance], "json"), "json", TRUE)

(***************************************************************************)
(* State                                                                   *)
(***************************************************************************)

VARIABLES
  clock,        \* the clock, a reading of Date.now()
  enabled,    \* enabled[r]: the enabled flag of router r
  listeners,  \* the routers whose handler listens to the document's paste events, in order of registration
  lifecycle,  \* lifecycle[r]: "constructed", or the last of enable() and disable() called on r
  callbacks,  \* callbacks[r]: the fields onDetect and onError of router r, each function named by the router it was given to
  last,       \* what the last operation was and did
  rules,      \* the rule set object of the classifier module: DETECTION_ORDER and each descriptor's tool and confidence
  held,       \* the result objects callers hold, each with its reference and its fields
  deployed,   \* the version of the site the network serves now
  cache,      \* cache[url]: the version of the response stored for url in the cache CACHE_NAME, 0 when there is none
  puts,       \* the cache updates started and not yet completed, each a url and a version
  freshest,   \* freshest[url]: the version of the last response the network gave for url with status 200, 0 when there was none
  answer,     \* what the service worker's fetch handler did with the last fetch event
  histories,  \* histories[tool]: the array stored in localStorage under devtoy_history_<tool>, empty when the key is absent
  added,      \* what the last call of history.add was given and whether its write went through
  currentTool,  \* the application's currentTool, "null" before the first tool
  current,      \* the application's currentToolInstance: the place of the instance in instances, 0 for null
  instances,    \* the tool instances that are referenced by the application or by a timer
  lastTool,     \* the lastTool preference as preferences.get reads it
  switched,     \* the key the last call of switchTool was given, and whether the last write of the lastTool preference went through
  ran           \* the last timer callback that ran, and whether its instance had been destroyed

\* The state of the router instances
routerVars == << enabled, listeners, lifecycle, callbacks >>

\* The classifier module's rule set and the results given out
ruleVars == << rules, held >>

\* The state of the service worker, its cache and the network
workerVars == << deployed, cache, puts, freshest, answer >>

\* What localStorage holds for the tools' histories
storeVars == << histories, added >>

\* The application, its tool instances and their timers
appVars == << currentTool, current, instances, lastTool, switched, ran >>

\* The state outside the router and the clock
restVars == << ruleVars, workerVars, storeVars, appVars >>

vars == << clock, enabled, listeners, lifecycle, callbacks, last, restVars >>

\* The record of an operation: its name, the router it was called on (0 for an
\* event and for a bare detectFormat), its arguments, the value returned (for
\* analyze and detectFormat), the classifier runs and callback invocations
\* it made, the routers whose method ended with an exception, and the reading
\* of the clock at which it took place.
Done(op, r, content, target, clipboard, ret, runs, calls, threw) ==
  [op |-> op, router |-> r, content |-> content, target |-> target,
   clipboard |-> clipboard, ret |-> ret, runs |-> runs, calls |-> calls, threw |-> threw,
   at |-> clock]

\* new SmartPaste(options), for each router
Init ==
  /\ clock = Instants[1]
  /\ enabled = [r \in Routers |-> TRUE]
  /\ listeners = << >>
  /\ lifecycle = [r \in Routers |-> "constructed"]
  /\ callbacks = [r \in Routers |-> [onDetect |-> r, onError |-> r]]
  /\ rules = RuleSet
  /\ held = << >>
  /\ deployed = 1
  /\ cache = [url \in Urls |-> 0]
  /\ puts = << >>
  /\ freshest = [url \in Urls |-> 0]
  /\ answer = NotIntercepted(Request("GET", "http", TRUE, "/", "navigate"))
  /\ histories = [tool \in HistoryTools |-> << >>]
  /\ added = [tool |-> "", input |-> 0, stored |-> FALSE]
  /\ currentTool = Started.currentTool
  /\ current = Started.current
  /\ instances = Started.instances
  /\ lastTool = Started.lastTool
  /\ switched = [key |-> "json", stored |-> TRUE]
  /\ ran = [kind |-> "none", destroyed |-> FALSE]
  /\ last = Done("constructor", 0, "", NoElement, Clipboard(FALSE, ""), NoMatch, << >>, << >>, { })

(***************************************************************************)
(* Operations of the router                                                *)
(***************************************************************************)

Enable(r) ==
  LET e == enable(r, listeners) IN
  /\ enabled' = [enabled EXCEPT ![r] = e.enabled]
  /\ listeners' = e.listeners
  /\ lifecycle' = [lifecycle EXCEPT ![r] = "enabled"]
  /\ last' = Done("enable", r, "", NoElement, Clipboard(FALSE, ""), NoMatch, << >>, << >>, { })
  /\ UNCHANGED << clock, callbacks, restVars >>

Disable(r) ==
  LET e == disable(r, listeners) IN
  /\ enabled' = [enabled EXCEPT ![r] = e.enabled]
  /\ listeners' = e.listeners
  /\ lifecycle' = [lifecycle EXCEPT ![r] = "disabled"]
  /\ last' = Done("disable", r, "", NoElement, Clipboard(FALSE, ""), NoMatch, << >>, << >>, { })
  /\ UNCHANGED << clock, callbacks, restVars >>

\* The document dispatches a paste event to its listeners from the k-th on, in
\* order of registration; an exception leaving one listener does not keep the
\* event from the next.
RECURSIVE Dispatch(_, _, _, _, _, _)
Dispatch(k, target, clipboard, onDetectThrows, onErrorThrows, acc) ==
  IF k > Len(listeners) THEN acc
  ELSE LET Handled(r, e) ==
             Dispatch(k + 1, target, clipboard, onDetectThrows, onErrorThrows,
                      [runs  |-> acc.runs \o e.runs,
                       calls |-> acc.calls \o e.calls,
                       threw |-> IF e.threw THEN acc.threw \cup { r } ELSE acc.threw])
           Handle(r) ==
             Handled(r, handleGlobalPaste(r, enabled[r], target, clipboard, clock,
                                          onDetectThrows[r], onErrorThrows[r]))
       IN  Handle(listeners[k])

\* A paste event on the page
PasteEvent ==
  \E target \in Targets, clipboard \in Clipboards,
     onDetectThrows \in [Routers -> BOOLEAN], onErrorThrows \in [Routers -> BOOLEAN] :
    LET Dispatched(e) ==
          Done("paste", 0, clipboard.text, target, clipboard, NoMatch,
               e.runs, e.calls, e.threw)
    IN  /\ last' = Dispatched(Dispatch(1, target, clipboard, onDetectThrows, onErrorThrows,
                                       [runs |-> << >>, calls |-> << >>, threw |-> { }]))
        /\ UNCHANGED << clock, enabled, listeners, lifecycle, callbacks, restVars >>

\* A call of processContent(content) on router r
ProcessContent(r) ==
  \E content \in RouterTexts, onDetectThrows \in BOOLEAN, onErrorThrows \in BOOLEAN :
    LET Ended(e) ==
          Done("processContent", r, content, NoElement, Clipboard(FALSE, ""), NoMatch,
               e.runs, e.calls, IF e.threw THEN { r } ELSE { })
    IN
    /\ last' = Ended(processContent(r, content, clock, onDetectThrows, onErrorThrows))
    /\ UNCHANGED << clock, enabled, listeners, lifecycle, callbacks, restVars >>

\* A call of analyze(content) on router r
Analyze(r) ==
  \E content \in RouterTexts :
    LET Ended(a) ==
          Done("analyze", r, content, NoElement, Clipboard(FALSE, ""), a.ret,
               a.effect.runs, a.effect.calls, IF a.effect.threw THEN { r } ELSE { })
    IN
    /\ last' = Ended(analyze(r, content, clock))
    /\ UNCHANGED << clock, enabled, listeners, lifecycle, callbacks, restVars >>

\* An input event on the application's smart-paste field
SmartPasteInput ==
  \E value \in RouterTexts, onDetectThrows \in BOOLEAN, onErrorThrows \in BOOLEAN :
    LET Ended(e) ==
          Done("input", AppRouter, value, NoElement, Clipboard(FALSE, ""), NoMatch,
               e.runs, e.calls, IF e.threw THEN { AppRouter } ELSE { })
    IN
    /\ last' = Ended(smartPasteInputListener(value, clock, onDetectThrows, onErrorThrows))
    /\ UNCHANGED << clock, enabled, listeners, lifecycle, callbacks, restVars >>

Next ==
  \/ \E r \in Routers : Enable(r)
  \/ \E r \in Routers : Disable(r)
  \/ PasteEvent
  \/ \E r \in Routers : ProcessContent(r)
  \/ \E r \in Routers : Analyze(r)
  \/ SmartPasteInput

Spec == Init /\ [][Next]_vars

(***************************************************************************)
(* The classifier on its own                                               *)
(***************************************************************************)

\* A call of detectFormat(content)
DetectFormat ==
  \E content \in Corpus :
    LET Ended(d) ==
          Done("detectFormat", 0, content, NoElement, Clipboard(FALSE, ""), d.result,
               << Run(0, content, d) >>, << >>, IF d.threw THEN { 0 } ELSE { })
    IN
    /\ last' = Ended(Detect(content, clock))
    /\ UNCHANGED << clock, enabled, listeners, lifecycle, callbacks, restVars >>

\* Time passes.
Tick ==
  /\ \E k \in 1..(Len(Instants) - 1) : clock = Instants[k] /\ clock' = Instants[k + 1]
  /\ UNCHANGED << enabled, listeners, lifecycle, callbacks, last, restVars >>

NextClassify == DetectFormat \/ Tick

SpecClassify == Init /\ [][NextClassify]_vars

\* The loop and the selection of detectFormat on every combination of
\* descriptor outcomes, those no text produces included (no text is valid
\* both as json and as regex: one starts with "{" or "[", the other with "/").
ClassifyOutcomes ==
  \E outcome \in [FormatKeys -> { "rejected", "invalid", "valid" }] :
    LET d == Classify(outcome) IN
    /\ last' = Done("classify", 0, "", NoElement, Clipboard(FALSE, ""), d.result,
                    << Run(0, "", d) >>, << >>, IF d.threw THEN { 0 } ELSE { })
    /\ UNCHANGED << clock, enabled, listeners, lifecycle, callbacks, restVars >>

NextSelect == ClassifyOutcomes

SpecSelect == Init /\ [][NextSelect]_vars

(***************************************************************************)
(* Properties of the classifier                                            *)
(***************************************************************************)

\* C1: whenever at least one descriptor validates the text, detectFormat has
\* tested all five descriptors and returns one of the validating descriptors
\* whose confidence no validating descriptor exceeds; a text valid both as
\* regex and as base64 is returned as regex.  (Checked under SpecClassify.)
C1_HighestConfidence ==
  \A k \in 1..Len(last.runs) :
    LET run   == last.runs[k]
        valid == { key \in FormatKeys : run.outcome[key] = "valid" }
    IN  valid # { } =>
          /\ ~run.threw
          /\ run.tested = DETECTION_ORDER
          /\ run.result # NoMatch
          /\ run.result.format \in valid
          /\ run.result.tool = DETECTION_PATTERNS[run.result.format].tool
          /\ run.result.confidence = DETECTION_PATTERNS[run.result.format].confidence
          /\ \A key \in valid : DETECTION_PATTERNS[key].confidence <= run.result.confidence
          /\ ({ "regex", "base64" } \subseteq valid => run.result.format = "regex")

\* A text valid as regex and as base64 has been classified, as regex.
C1_Witness ==
  /\ last.op = "detectFormat"
  /\ Len(last.runs) = 1
  /\ last.runs[1].outcome["regex"] = "valid"
  /\ last.runs[1].outcome["base64"] = "valid"
  /\ last.ret = [format |-> "regex", tool |-> "regex", confidence |-> 90]

\* C2: when several validating descriptors share the highest confidence, the
\* one returned is the first of them in DETECTION_ORDER.  (Checked under
\* SpecSelect, on every combination of descriptor outcomes.)
C2_FirstOfEqualConfidence ==
  \A k \in 1..Len(last.runs) :
    LET run == last.runs[k] IN
    \A i \in 1..Len(DETECTION_ORDER) :
      ( /\ run.outcome[DETECTION_ORDER[i]] = "valid"
        /\ \A j \in 1..Len(DETECTION_ORDER) :
             run.outcome[DETECTION_ORDER[j]] = "valid" =>
               /\ DETECTION_PATTERNS[DETECTION_ORDER[j]].confidence
                    <= DETECTION_PATTERNS[DETECTION_ORDER[i]].confidence
               /\ ( DETECTION_PATTERNS[DETECTION_ORDER[j]].confidence
                      = DETECTION_PATTERNS[DETECTION_ORDER[i]].confidence => i <= j ) )
      => run.result.format = DETECTION_ORDER[i]

\* json and regex, of equal confidence, both validate and nothing ranks
\* higher: json, the earlier one, is returned.
C2_Witness ==
  /\ last.op = "classify"
  /\ Len(last.runs) = 1
  /\ last.runs[1].outcome["json"] = "valid"
  /\ last.runs[1].outcome["regex"] = "valid"
  /\ last.runs[1].outcome["jwt"] # "valid"
  /\ last.ret.format = "json"

\* C3: on the empty string and on a text of white space only, detectFormat
\* returns null and neither tests the pattern nor calls the validator of any
\* descriptor.  (Checked under SpecClassify.)
C3_BlankIsNullUnevaluated ==
  \A k \in 1..Len(last.runs) :
    LET run == last.runs[k] IN
    AllIn(run.content, WhiteSpace) =>
      /\ ~run.threw
      /\ run.result = NoMatch
      /\ run.tested = << >>
      /\ run.validated = << >>

\* detectFormat has been called on a text that is not empty and holds white
\* space only.
C3_Witness ==
  /\ last.op = "detectFormat"
  /\ last.content # ""
  /\ AllIn(last.content, WhiteSpace)
  /\ last.ret = NoMatch
  /\ last.runs[1].tested = << >>

\* C5: detectFormat returns normally on every text: no exception leaves a
\* validator, every descriptor is still tested after a validator has failed
\* inside, and a descriptor whose validator failed inside does not match.
\* (Checked under SpecClassify.)
C5_ValidatorFailureIsNoMatch ==
  \A k \in 1..Len(last.runs) :
    LET run == last.runs[k] IN
    /\ ~run.threw
    /\ \A key \in FormatKeys : run.outcome[key] # "threw"
    /\ last.threw = { }
    /\ (run.tested # << >> => run.tested = DETECTION_ORDER)
    /\ \A i \in 1..Len(run.results) : run.outcome[run.results[i].format] = "valid"

\* new RegExp fails inside the regex validator on a text that is valid
\* Base64: the text is classified, as base64.
C5_Witness ==
  /\ last.op = "detectFormat"
  /\ last.content = "/+abcdefghijklmnopqrst/"
  /\ RegexValidateTry(last.content).threw
  /\ last.runs[1].validated = << "regex", "base64" >>
  /\ last.ret.format = "base64"

(***************************************************************************)
(* Properties of the router                                                *)
(***************************************************************************)

\* C4: whenever the classifier returns null for the text processContent is
\* given (the empty and the white-space-only text included), onDetect is
\* invoked with that text, format "unknown", tool "json", confidence 0,
\* displayName "Unknown Format" and toolName "JSON Formatter".
C4_UnknownFallsBackToJson ==
  last.op \in { "processContent", "input", "paste" } =>
    \A k \in 1..Len(last.runs) :
      LET run == last.runs[k] IN
      (run.result = NoMatch /\ ~run.threw) =>
        \E c \in 1..Len(last.calls) :
          /\ last.calls[c].router = run.router
          /\ last.calls[c].fn = "onDetect"
          /\ last.calls[c].payload =
               [content |-> run.content, format |-> "unknown", tool |-> "json",
                confidence |-> 0, displayName |-> "Unknown Format",
                toolName |-> "JSON Formatter"]

\* processContent(" ") has invoked onDetect with the fallback.
C4_Witness ==
  /\ last.op = "processContent"
  /\ last.content = " "
  /\ Len(last.runs) = 1
  /\ last.runs[1].result = NoMatch
  /\ Len(last.calls) = 1
  /\ last.calls[1].fn = "onDetect"
  /\ last.calls[1].payload.format = "unknown"
  /\ last.calls[1].payload.content = " "

\* C6 as stated: processContent never throws to its caller, whatever the
\* registered callbacks do.
C6_NeverThrows ==
  last.op \in { "processContent", "input" } => last.threw = { }

\* C6, amended: an exception of onDetect is caught and passed to onError,
\* which is invoked once, right after; processContent throws to its caller
\* exactly when onError itself throws.
C6_ThrowsOnlyFromOnError ==
  last.op \in { "processContent", "input" } =>
    /\ \A c \in 1..Len(last.calls) :
         /\ (last.calls[c].fn = "onDetect" /\ last.calls[c].threw) =>
              /\ c + 1 = Len(last.calls)
              /\ last.calls[c + 1].fn = "onError"
              /\ last.calls[c + 1].router = last.calls[c].router
         /\ last.calls[c].fn = "onError" =>
              /\ c = Len(last.calls)
              /\ c > 1
              /\ last.calls[c - 1].fn = "onDetect"
              /\ last.calls[c - 1].threw
    /\ last.threw # { } <=>
         /\ last.calls # << >>
         /\ last.calls[Len(last.calls)].fn = "onError"
         /\ last.calls[Len(last.calls)].threw

\* onDetect threw, onError got the exception and returned: processContent
\* returned normally.
C6_Witness ==
  /\ last.op = "processContent"
  /\ last.threw = { }
  /\ Len(last.calls) = 2
  /\ last.calls[1].fn = "onDetect"
  /\ last.calls[1].threw
  /\ last.calls[2].fn = "onError"
  /\ ~last.calls[2].threw

\* C7 as stated: while a router is disabled, neither a paste event nor a call
\* of processContent runs the classifier or invokes onDetect for it.
C7_NoWorkWhileDisabled ==
  \A r \in Routers :
    (lifecycle[r] = "disabled" /\ last.op \in { "paste", "processContent", "input" }) =>
      /\ \A k \in 1..Len(last.runs) : last.runs[k].router # r
      /\ \A c \in 1..Len(last.calls) : last.calls[c].router # r

\* C7, amended: while a router is disabled no paste event runs the classifier
\* or invokes a callback for it; a call of processContent on it classifies
\* the text and invokes onDetect as it does on an enabled router.
C7_NoPasteWorkWhileDisabled ==
  \A r \in Routers :
    lifecycle[r] = "disabled" =>
      /\ ~enabled[r]
      /\ \A k \in 1..Len(listeners) : listeners[k] # r
      /\ last.op = "paste" =>
           /\ \A k \in 1..Len(last.runs) : last.runs[k].router # r
           /\ \A c \in 1..Len(last.calls) : last.calls[c].router # r
      /\ (last.op = "processContent" /\ last.router = r) =>
           /\ Len(last.runs) = 1
           /\ last.runs[1].router = r
           /\ last.calls # << >>
           /\ last.calls[1].fn = "onDetect"

\* A paste event on the smart-paste field, with text on the clipboard, while
\* router 1 is disabled and router 2 enabled: router 2 classified the text,
\* router 1 did nothing.
C7_Witness ==
  /\ lifecycle[1] = "disabled"
  /\ lifecycle[2] = "enabled"
  /\ last.op = "paste"
  /\ last.target = Element("TEXTAREA", TRUE, "smartPasteInput")
  /\ last.clipboard = Clipboard(TRUE, "{\"a\":1}")
  /\ Len(last.runs) = 1
  /\ last.runs[1].router = 2

\* C8: a router on which neither enable() nor disable() has been called
\* reacts to paste events: a paste event on the smart-paste field with text
\* on the clipboard leads to a call of its onDetect.
C8_ReactsAfterConstruction ==
  ( /\ last.op = "paste"
    /\ last.target = Element("TEXTAREA", TRUE, "smartPasteInput")
    /\ last.clipboard.present
    /\ last.clipboard.text # "" )
  => \A r \in Routers :
       lifecycle[r] = "constructed" =>
         \E c \in 1..Len(last.calls) :
           last.calls[c].router = r /\ last.calls[c].fn = "onDetect"

C10_OnlySmartPasteZone ==
  (last.op = "paste" /\ last.runs # << >>) =>
    (last.target.pasteInput \/ Contains(last.target.id, "smart"))

\* C10, amended: a paste event is ignored when its target is an INPUT or a
\* TEXTAREA that has neither the class paste-input nor an id containing
\* "smart"; on every other target (the smart-paste field, and elements that
\* are no text field, the body included) every enabled listening router
\* forwards the clipboard's text, when there is some, to processContent.
C10_IgnoresGenericTextFields ==
  last.op = "paste" =>
    LET generic == /\ last.target.tagName \in { "INPUT", "TEXTAREA" }
                   /\ ~last.target.pasteInput
                   /\ ~Contains(last.target.id, "smart")
        forwarded == { last.runs[k].router : k \in 1..Len(last.runs) }
        reacting  == { listeners[k] : k \in 1..Len(listeners) }
    IN  /\ generic => last.runs = << >> /\ last.calls = << >>
        /\ (~generic /\ last.clipboard.present /\ last.clipboard.text # "") =>
             forwarded = { r \in reacting : enabled[r] }
        /\ (~last.clipboard.present \/ last.clipboard.text = "") => last.runs = << >>
        /\ \A k \in 1..Len(last.runs) : last.runs[k].content = last.clipboard.text

\* A paste event on the body of the page has been forwarded by the one
\* listening router.
C10_Witness ==
  /\ last.op = "paste"
  /\ last.target = Element("BODY", FALSE, "")
  /\ last.clipboard = Clipboard(TRUE, "hello")
  /\ Len(last.runs) = 1
  /\ last.calls # << >>

(***************************************************************************)
(* Properties of the classifier, continued                                 *)
(***************************************************************************)

\* C11 as stated: any two calls of detectFormat on the same text return the
\* same result.  (Stated of two calls in a row; SpecClassify lets the clock
\* advance between them.)
C11_RepeatedCallsAgree ==
  [][ ( /\ last.op = "detectFormat"
        /\ last'.op = "detectFormat"
        /\ last'.content = last.content )
      => last'.ret = last.ret ]_vars

\* C11, amended: two calls of detectFormat on the same text return the same
\* result, except that a string of 10 digits (13 digits) whose value is not
\* below the earlier reading of the clock plus fifty years, in seconds (in
\* milliseconds), and is below the later reading plus fifty years is null at
\* the earlier call and unixTimestamp at the later one.
C11_AgreeButAtTheFiftyYearBound ==
  [][ ( /\ last.op = "detectFormat"
        /\ last'.op = "detectFormat"
        /\ last'.content = last.content
        /\ last'.ret # last.ret )
      => LET t == Trim(last.content)
             millis == IF Len(t) = 10 THEN t \o "000" ELSE t
         IN  /\ Len(t) \in { 10, 13 }
             /\ AllIn(t, DigitChars)
             /\ ~DecLess(millis, DecAdd(last.at, "1577836800000"))
             /\ DecLess(millis, DecAdd(last'.at, "1577836800000"))
             /\ last.ret = NoMatch
             /\ last'.ret = [format |-> "unixTimestamp", tool |-> "timestamp",
                             confidence |-> 85] ]_vars

\* At the later reading of the clock detectFormat has classified as
\* unixTimestamp a text that was null at the earlier reading.
C11_Witness ==
  /\ last.op = "detectFormat"
  /\ last.at = Instants[2]
  /\ last.content = "3340137600"
  /\ Detect(last.content, Instants[1]).result = NoMatch
  /\ last.ret.format = "unixTimestamp"

\* C14: a text is classified as jwt only if its first part and its second
\* part both decode to JSON objects.
C14_JwtPartsAreObjects ==
  \A k \in 1..Len(last.runs) :
    last.runs[k].result.format = "jwt" =>
      /\ DecodedPart(last.runs[k].content, 1).kind = "object"
      /\ DecodedPart(last.runs[k].content, 2).kind = "object"

\* C15: a token whose header and payload decode to JSON objects validates as
\* jwt exactly when the header's typ is "JWT", or the header has an alg
\* member, or the payload has an iat, exp or sub member, whatever the value of
\* that member.
C15_JwtFieldPresence ==
  \A k \in 1..Len(last.runs) :
    LET run     == last.runs[k]
        header  == DecodedPart(run.content, 1)
        payload == DecodedPart(run.content, 2)
        Has(x, name) == \E m \in 1..Len(x.members) : x.members[m].key = Codes(name)
        typ     == LastMember(header.members, Codes("typ"), Len(header.members))
    IN  ( /\ run.outcome["jwt"] # "rejected"
          /\ header.kind = "object"
          /\ payload.kind = "object" )
        => ( run.result.format = "jwt" <=>
               \/ (typ.kind = "string" /\ typ.str = Codes("JWT"))
               \/ Has(header, "alg")
               \/ Has(payload, "iat")
               \/ Has(payload, "exp")
               \/ Has(payload, "sub") )

\* C16 as stated: a text the base64 pattern matches and atob decodes
\* validates as base64 exactly when fewer than 50 bytes are decoded or more
\* than 0.7 of the decoded bytes have a code in [32, 126), that is 32..125.
C16_PrintableBelow126 ==
  \A k \in 1..Len(last.runs) :
    LET run == last.runs[k]
        Accepted(d) ==
          d.ok =>
            ( run.outcome["base64"] = "valid" <=>
                \/ Len(d.bytes) < 50
                \/ 10 * Cardinality({ i \in 1..Len(d.bytes) : d.bytes[i] \in 32..125 })
                     > 7 * Len(d.bytes) )
    IN  run.outcome["base64"] # "rejected" =>
          Accepted(Atob(ReplaceAll(ReplaceAll(Trim(run.content), "-", "+"), "_", "/")))

\* C16, amended: a text the base64 pattern matches and atob decodes validates
\* as base64 exactly when fewer than 50 bytes are decoded or more than 0.7 of
\* the decoded bytes have a code in [32, 127), that is 32..126, "~" included.
C16_PrintableBelow127 ==
  \A k \in 1..Len(last.runs) :
    LET run == last.runs[k]
        Accepted(d) ==
          d.ok =>
            ( run.outcome["base64"] = "valid" <=>
                \/ Len(d.bytes) < 50
                \/ 10 * Cardinality({ i \in 1..Len(d.bytes) : d.bytes[i] \in 32..126 })
                     > 7 * Len(d.bytes) )
    IN  run.outcome["base64"] # "rejected" =>
          Accepted(Atob(ReplaceAll(ReplaceAll(Trim(run.content), "-", "+"), "_", "/")))

\* detectFormat has classified as base64 a text that decodes to 50 bytes, 36
\* of them "~" and 14 of them 0.
C16_Witness ==
  /\ last.op = "detectFormat"
  /\ last.content = Btoa(TildeBytes(50, 36))
  /\ last.runs[1].outcome["base64"] = "valid"
  /\ last.ret.format = "base64"

\* C17: a text whose trimmed form contains ".", is shorter than 20
\* characters or holds a character outside A-Z a-z 0-9 + / = _ - neither
\* validates nor is classified as base64; jwt and base64 never both validate
\* the same text.
C17_Base64Shape ==
  \A k \in 1..Len(last.runs) :
    LET run == last.runs[k]
        t   == Trim(run.content)
    IN  /\ (run.outcome["base64"] = "valid" \/ run.result.format = "base64") =>
             /\ \A i \in 1..Len(t) : CharAt(t, i) # "."
             /\ Len(t) >= 20
             /\ \A i \in 1..Len(t) :
                  CharAt(t, i) \in AlnumChars \cup { "+", "/", "=", "_", "-" }
        /\ ~(run.outcome["jwt"] = "valid" /\ run.outcome["base64"] = "valid")

\* A token of more than 20 characters, with dots, has validated as jwt; the
\* base64 pattern rejected it.
C17_Witness ==
  /\ last.op = "detectFormat"
  /\ last.content =
       "eyJhbGciOiJIUzI1NiIsInR5cCI6IkpXVCJ9.eyJzdWIiOiIxMjM0NTY3ODkwIn0.signature"
  /\ last.runs[1].outcome["jwt"] = "valid"
  /\ last.runs[1].outcome["base64"] = "rejected"
  /\ last.ret.format = "jwt"

\* C18: a text is classified as unixTimestamp exactly when its trimmed form
\* is all digits and either has 10 digits and a value v with
\* 0 < v < now / 1000 + 1577836800 or has 13 digits and a value v with
\* 0 < v < now + 1577836800000, now being the reading of the clock at the
\* call; so never with 11 or 12 digits, with zeros only, or at or beyond the
\* bound.
C18_TimestampWindow ==
  \A k \in 1..Len(last.runs) :
    LET run == last.runs[k]
        t   == Trim(run.content)
        millis == IF Len(t) = 10 THEN t \o "000" ELSE t
    IN  last.op = "detectFormat" =>
          ( run.result.format = "unixTimestamp" <=>
              /\ Len(t) \in { 10, 13 }
              /\ \A i \in 1..Len(t) : CharAt(t, i) \in DigitChars
              /\ \E i \in 1..Len(t) : CharAt(t, i) # "0"
              /\ DecLess(millis, DecAdd(last.at, "1577836800000")) )

\* detectFormat has returned null on the 10 digits that are the reading of
\* the clock, in seconds, plus fifty years: the bound itself is outside.
C18_Witness ==
  /\ last.op = "detectFormat"
  /\ last.at = Instants[1]
  /\ last.content = "3340137600"
  /\ last.runs[1].outcome["unixTimestamp"] = "invalid"
  /\ last.ret = NoMatch

\* C19 as stated: a text of the form /pattern/flags, with flags among
\* g, i, m, s, u, y, is classified as regex exactly when new RegExp(pattern,
\* flags) succeeds.
C19_RegexIffCompiles ==
  \A k \in 1..Len(last.runs) :
    LET run == last.runs[k]
        t   == Trim(run.content)
        slashes == { i \in 2..Len(t) : CharAt(t, i) = "/" }
        closing == CHOOSE i \in slashes : \A j \in slashes : j <= i
    IN  ( /\ Len(t) >= 2
          /\ CharAt(t, 1) = "/"
          /\ slashes # { }
          /\ \A i \in (closing + 1)..Len(t) : CharAt(t, i) \in { "g", "i", "m", "s", "u", "y" } )
        => /\ ~run.threw
           /\ run.result.format = "regex" <=>
                RegExpCompiles(SubSeq(t, 2, closing - 1), SubSeq(t, closing + 1, Len(t)))

\* C19, amended: a text of the form /pattern/flags, with flags among
\* g, i, m, s, u, y, whose pattern holds no line terminator is classified as
\* regex exactly when new RegExp(pattern, flags) succeeds; with a line
\* terminator in the pattern it is not classified as regex.  No exception
\* leaves detectFormat either way.
C19_RegexIffCompilesOnOneLine ==
  \A k \in 1..Len(last.runs) :
    LET run == last.runs[k]
        t   == Trim(run.content)
        slashes == { i \in 2..Len(t) : CharAt(t, i) = "/" }
        closing == CHOOSE i \in slashes : \A j \in slashes : j <= i
        oneLine == \A i \in 2..(closing - 1) : CharAt(t, i) \notin LineTerminators
    IN  ( /\ Len(t) >= 2
          /\ CharAt(t, 1) = "/"
          /\ slashes # { }
          /\ \A i \in (closing + 1)..Len(t) : CharAt(t, i) \in { "g", "i", "m", "s", "u", "y" } )
        => /\ ~run.threw
           /\ run.outcome["regex"] # "threw"
           /\ run.result.format = "regex" <=>
                /\ oneLine
                /\ RegExpCompiles(SubSeq(t, 2, closing - 1), SubSeq(t, closing + 1, Len(t)))

\* A regex literal with the flag g given twice: new RegExp fails, and
\* detectFormat returns null.
C19_Witness ==
  /\ last.op = "detectFormat"
  /\ last.content = "/abc/gg"
  /\ last.runs[1].validated = << "regex" >>
  /\ last.runs[1].outcome["regex"] = "invalid"
  /\ last.ret = NoMatch

(***************************************************************************)
(* Properties of the router, continued                                     *)
(***************************************************************************)

\* C12: every payload passed to onDetect carries one of the six triples
\* (jwt, jwt, 0.95), (json, json, 0.9), (unixTimestamp, timestamp, 0.85),
\* (regex, regex, 0.9), (base64, base64, 0.7), (unknown, json, 0); so its tool
\* is one of the five routed tools and its confidence lies within [0, 1].
C12_PayloadTriples ==
  \A c \in 1..Len(last.calls) :
    last.calls[c].fn = "onDetect" =>
      LET p == last.calls[c].payload IN
      /\ << p.format, p.tool, p.confidence >> \in
           { << "jwt", "jwt", 95 >>, << "json", "json", 90 >>,
             << "unixTimestamp", "timestamp", 85 >>, << "regex", "regex", 90 >>,
             << "base64", "base64", 70 >>, << "unknown", "json", 0 >> }
      /\ p.tool \in { "jwt", "json", "timestamp", "regex", "base64" }
      /\ p.confidence >= 0
      /\ p.confidence <= 100

\* onDetect has been given a Unix timestamp, whose tool differs from its
\* format key.
C12_Witness ==
  /\ last.op = "processContent"
  /\ last.content = "1700000000"
  /\ Len(last.calls) = 1
  /\ last.calls[1].fn = "onDetect"
  /\ last.calls[1].payload.format = "unixTimestamp"
  /\ last.calls[1].payload.tool = "timestamp"
  /\ last.calls[1].payload.confidence = 85

\* C13: a call processContent(text) invokes onDetect exactly once, with the
\* text as content exactly as it was passed in, and changes nothing the
\* router keeps: neither an enabled flag nor the paste listeners.
C13_DeliversOnceAsGiven ==
  [][ last'.op = "processContent" =>
        /\ Cardinality({ c \in 1..Len(last'.calls) : last'.calls[c].fn = "onDetect" }) = 1
        /\ last'.calls[1].fn = "onDetect"
        /\ last'.calls[1].router = last'.router
        /\ last'.calls[1].payload.content = last'.content
        /\ Len(last'.runs) = 1
        /\ last'.runs[1].content = last'.content
        /\ enabled' = enabled
        /\ listeners' = listeners ]_vars

\* processContent has delivered, once, a JSON text with white space around
\* it, the white space included.
C13_Witness ==
  /\ last.op = "processContent"
  /\ last.content = " {\"a\":1}\n"
  /\ Len(last.calls) = 1
  /\ last.calls[1].fn = "onDetect"
  /\ last.calls[1].payload.content = " {\"a\":1}\n"
  /\ last.calls[1].payload.format = "json"

\* Whether router r's handler listens to the document's paste events.
Subscribed(list, r) == \E k \in 1..Len(list) : list[k] = r

\* C20: the routers are independent.  A step that is enable(), disable() or
\* processContent on router r leaves every other router's enabled flag, paste
\* subscription and callbacks as they were, classifies only on behalf of r and
\* invokes only the callbacks of r; and on every step, a paste event included,
\* each result delivered to an onDetect was produced by a classifier run of
\* the router that owns that onDetect.  (Checked under Spec.)
C20_RoutersAreIndependent ==
  [][ /\ \A r \in Routers :
           (last'.op \in { "enable", "disable", "processContent" } /\ last'.router = r) =>
             /\ \A q \in Routers \ { r } :
                  /\ enabled'[q] = enabled[q]
                  /\ Subscribed(listeners', q) <=> Subscribed(listeners, q)
                  /\ callbacks'[q] = callbacks[q]
             /\ \A k \in 1..Len(last'.runs) : last'.runs[k].router = r
             /\ \A k \in 1..Len(last'.calls) :
                  /\ last'.calls[k].router = r
                  /\ last'.calls[k].fn = "onDetect" => callbacks'[r].onDetect = r
      /\ \A k \in 1..Len(last'.calls) :
           last'.calls[k].fn = "onDetect" =>
             /\ callbacks'[last'.calls[k].router].onDetect = last'.calls[k].router
             /\ \E j \in 1..Len(last'.runs) :
                  /\ last'.runs[j].router = last'.calls[k].router
                  /\ last'.runs[j].content = last'.calls[k].payload.content
                  /\ \/ /\ last'.runs[j].result # NoMatch
                        /\ last'.calls[k].payload.format = last'.runs[j].result.format
                     \/ /\ last'.runs[j].result = NoMatch
                        /\ last'.calls[k].payload.format = "unknown"
    ]_vars

\* Router 1 has just been enabled while router 2, disabled before, stays
\* disabled and unsubscribed.
C20_Witness ==
  /\ last.op = "enable"
  /\ last.router = 1
  /\ enabled[1]
  /\ Subscribed(listeners, 1)
  /\ ~enabled[2]
  /\ ~Subscribed(listeners, 2)
  /\ lifecycle[2] = "disabled"

(***************************************************************************)
(* Properties of the classifier: the loop                                  *)
(***************************************************************************)

\* C24: in every call of detectFormat a descriptor's validator is called only
\* when that descriptor's pattern has been tested in the same call and
\* matches the trimmed text; a descriptor whose pattern does not match the
\* trimmed text has no call of its validator.  (Checked under SpecClassify.)
C24_ValidatorOnlyAfterPattern ==
  \A k \in 1..Len(last.runs) :
    LET run == last.runs[k] IN
    /\ \A j \in 1..Len(run.validated) :
         /\ \E i \in 1..Len(run.tested) : run.tested[i] = run.validated[j]
         /\ PatternTest(run.validated[j], Trim(run.content))
         /\ \A i \in 1..Len(run.validated) : i # j => run.validated[i] # run.validated[j]
    /\ \A key \in FormatKeys :
         ~PatternTest(key, Trim(run.content)) =>
           \A j \in 1..Len(run.validated) : run.validated[j] # key

\* A call that tested the five patterns and called the validators of regex
\* and base64 only.
C24_Witness ==
  /\ last.op = "detectFormat"
  /\ Len(last.runs) = 1
  /\ last.runs[1].tested = DETECTION_ORDER
  /\ last.runs[1].validated = << "regex", "base64" >>

(***************************************************************************)
(* Properties of the router: subscription                                  *)
(***************************************************************************)

\* The number of times router r's handler stands in the list of listeners.
Registrations(list, r) == Cardinality({ k \in 1..Len(list) : list[k] = r })

\* C25: whatever enable() and disable() calls were made, each router's paste
\* handler is registered on the document at most once, it is registered
\* exactly when the last of these calls on the router was enable(), and a
\* router whose handler is registered has enabled = true.  (Checked under Spec.)
C25_RegisteredOnceIffLastEnable ==
  \A r \in Routers :
    /\ Registrations(listeners, r) <= 1
    /\ Registrations(listeners, r) = 1 <=> lifecycle[r] = "enabled"
    /\ Registrations(listeners, r) >= 1 => enabled[r]

\* Both routers are registered, router 2 first, and enable() has just been
\* called on router 1.
C25_Witness ==
  /\ last.op = "enable"
  /\ last.router = 1
  /\ listeners = << 2, 1 >>
  /\ enabled[1]
  /\ enabled[2]

(***************************************************************************)
(* Properties of the router: a failing onDetect                            *)
(***************************************************************************)

\* C26: in a call of processContent, when onDetect ends with an exception the
\* router invokes onError right after it, so both callbacks are invoked,
\* onDetect first; when onDetect returns normally the router's onError is
\* not invoked.  This holds for processContent called directly, from the
\* smart-paste field and from a paste event.  (Checked under Spec.)
C26_OnDetectFailureReachesOnError ==
  last.op \in { "processContent", "input", "paste" } =>
    \A k \in 1..Len(last.calls) :
      LET call == last.calls[k] IN
      /\ (call.fn = "onDetect" /\ call.threw) =>
           /\ k < Len(last.calls)
           /\ last.calls[k + 1].fn = "onError"
           /\ last.calls[k + 1].router = call.router
           /\ Cardinality({ j \in 1..Len(last.calls) :
                              last.calls[j].router = call.router }) = 2
      /\ (call.fn = "onDetect" /\ ~call.threw) =>
           \A j \in 1..Len(last.calls) :
             last.calls[j].router = call.router => last.calls[j].fn # "onError"
      /\ call.fn = "onError" =>
           /\ k > 1
           /\ last.calls[k - 1].fn = "onDetect"
           /\ last.calls[k - 1].router = call.router
           /\ last.calls[k - 1].threw

\* processContent on router 1 whose onDetect threw: onDetect, then onError,
\* and no exception leaves the call.
C26_Witness ==
  /\ last.op = "processContent"
  /\ last.router = 1
  /\ Len(last.calls) = 2
  /\ last.calls[1].fn = "onDetect"
  /\ last.calls[1].threw
  /\ last.calls[2].fn = "onError"
  /\ ~last.calls[2].threw
  /\ last.threw = { }

(***************************************************************************)
(* The rule set and the result objects given out                           *)
(***************************************************************************)

\* How many result objects the callers hold at a time
MaxHeld == 2

\* The texts classified while the rule set is watched
RuleTexts == { "hello", "{\"a\":1}", "1700000000" }

\* The references of the objects created by calls, MaxHeld of them in use at most
ObjectRefs == { "object1", "object2", "object3" }

\* The reference of an object created now: one no held object has
FreshRef(objects) ==
  CHOOSE ref \in ObjectRefs : \A k \in 1..Len(objects) : objects[k].ref # ref

\* Faulty variant that pushes the descriptor itself, results.push(detection):
\* property C21 tells it from Pushed.
PushedDescriptor(fresh, formatKey) == formatKey

\* results.push({ format: formatKey, tool: ..., confidence: ... }): the object
\* literal makes a new object, which is the one detectFormat returns.
Pushed(fresh, formatKey) == fresh

\* An object a caller holds: its reference, its fields, and the text and the
\* operation it came from.
Held(ref, value, content, op) == [ref |-> ref, value |-> value, content |-> content, op |-> op]

\* A write of value to a field of the object behind reference ref, as every
\* holder of that reference sees it.
WriteHeld(objects, ref, fieldName, value) ==
  [ k \in 1..Len(objects) |->
      IF objects[k].ref = ref /\ fieldName \in DOMAIN objects[k].value
      THEN [objects[k] EXCEPT !.value[fieldName] = value]
      ELSE objects[k] ]

\* The same write as the rule set sees it: only a reference to a descriptor
\* reaches a descriptor.
WriteRules(ruleSet, ref, fieldName, value) ==
  IF ref \in FormatKeys /\ fieldName \in { "tool", "confidence" }
  THEN [ruleSet EXCEPT !.patterns[ref][fieldName] = value]
  ELSE ruleSet

\* detectFormat(content) or router.analyze(content), whose caller keeps the
\* result it was given
KeepResult ==
  \E content \in RuleTexts, op \in { "detectFormat", "analyze" } :
    LET Kept(d) ==
          IF d.result = NoMatch THEN held
          ELSE Append(held, Held(Pushed(FreshRef(held), d.result.format), d.result, content, op))
    IN  /\ Len(held) < MaxHeld
        /\ held' = Kept(detectFormatOver(rules, content, clock))
        /\ UNCHANGED << clock, last, routerVars, rules, workerVars, storeVars, appVars >>

\* processContent(content), whose onDetect keeps the payload it was given: a
\* new object with the fields of the detection spread into it
KeepPayload ==
  \E content \in RuleTexts :
    LET Kept(d) ==
          Append(held, Held(FreshRef(held),
                            IF d.result # NoMatch THEN Enriched(content, d.result)
                            ELSE Fallback(content),
                            content, "processContent"))
    IN  /\ Len(held) < MaxHeld
        /\ held' = Kept(detectFormatOver(rules, content, clock))
        /\ UNCHANGED << clock, last, routerVars, rules, workerVars, storeVars, appVars >>

\* A holder writes to a field of an object it was given.
MutateResult ==
  \E k \in 1..Len(held) :
    \E w \in { << "tool", "evil" >>, << "confidence", 0 >> } :
      /\ held' = WriteHeld(held, held[k].ref, w[1], w[2])
      /\ rules' = WriteRules(rules, held[k].ref, w[1], w[2])
      /\ UNCHANGED << clock, last, routerVars, workerVars, storeVars, appVars >>

\* A holder lets go of the oldest object.
ReleaseResult ==
  /\ Len(held) > 0
  /\ held' = Tail(held)
  /\ UNCHANGED << clock, last, routerVars, rules, workerVars, storeVars, appVars >>

NextRules == KeepResult \/ KeepPayload \/ MutateResult \/ ReleaseResult

SpecRules == Init /\ [][NextRules]_vars

\* C21: whatever detectFormat, analyze and processContent calls are made and
\* whatever their callers write to the results and payloads they were given,
\* the rule set keeps its descriptor keys, confidences, tools and order; no
\* object given out is a descriptor or an object given out before; and every
\* call classifies as the untouched rule set does.  (Checked under SpecRules.)
C21_RuleSetUnchanged ==
  [][ /\ rules' = RuleSet
      /\ DOMAIN rules'.patterns = FormatKeys
      /\ \A k \in 1..Len(held') :
           /\ held'[k].ref \notin FormatKeys
           /\ \A j \in 1..Len(held') : j # k => held'[j].ref # held'[k].ref
      /\ Len(held') = Len(held) + 1 =>
           LET new == held'[Len(held')]
               expected == Detect(new.content, clock).result
           IN  IF new.op = "processContent"
               THEN new.value = IF expected # NoMatch THEN Enriched(new.content, expected)
                                ELSE Fallback(new.content)
               ELSE new.value = expected
    ]_vars

\* A caller holds a json result whose tool and confidence it has overwritten,
\* and next to it a json result classified after that.
C21_Witness ==
  /\ Len(held) = 2
  /\ held[1].content = "{\"a\":1}"
  /\ held[1].op = "detectFormat"
  /\ held[1].value.tool = "evil"
  /\ held[1].value.confidence = 0
  /\ held[2].content = "{\"a\":1}"
  /\ held[2].value = [format |-> "json", tool |-> "json", confidence |-> 90]
  /\ rules = RuleSet

(***************************************************************************)
(* The service worker at work                                              *)
(***************************************************************************)

\* How many versions of the site are deployed
MaxVersion == 2

\* How many cache updates are under way at a time
MaxPuts == 1

CachePut(url, version) == [url |-> url, version |-> version]

\* A fetch event: the handler runs to its response; the cache update it may
\* have started is under way when it returns, since nothing waits for it.
FetchEvent ==
  \E request \in Requests, outcome \in NetworkOutcomes :
    LET Handled(a) ==
          /\ a.put => Len(puts) < MaxPuts
          /\ answer' = a
          /\ puts' = IF a.put THEN Append(puts, CachePut(request.path, a.response.version))
                     ELSE puts
          /\ freshest' = IF a.from = "network" /\ a.response.status = 200
                         THEN [freshest EXCEPT ![request.path] = a.response.version]
                         ELSE freshest
    IN  /\ Handled(FetchHandler(request, outcome, cache, deployed))
        /\ UNCHANGED << clock, last, routerVars, ruleVars, storeVars, appVars, deployed, cache >>

\* cache.put(event.request, responseToCache) completes.
CachePutCompletes ==
  \E k \in 1..Len(puts) :
    /\ cache' = [cache EXCEPT ![puts[k].url] = puts[k].version]
    /\ puts' = SubSeq(puts, 1, k - 1) \o SubSeq(puts, k + 1, Len(puts))
    /\ UNCHANGED << clock, last, routerVars, ruleVars, storeVars, appVars, deployed, freshest, answer >>

\* caches.open or cache.put is rejected (the quota is used up, the body fails
\* to arrive): the catch logs it and the cache stays as it was.
CachePutFails ==
  \E k \in 1..Len(puts) :
    /\ puts' = SubSeq(puts, 1, k - 1) \o SubSeq(puts, k + 1, Len(puts))
    /\ UNCHANGED << clock, last, routerVars, ruleVars, storeVars, appVars, deployed, cache, freshest, answer >>

\* A CLEAR_CACHE message: every cache is deleted.
ClearCache ==
  /\ cache' = [url \in Urls |-> 0]
  /\ UNCHANGED << clock, last, routerVars, ruleVars, storeVars, appVars, deployed, puts, freshest, answer >>

\* A new version of the site is deployed.
Deploy ==
  /\ deployed < MaxVersion
  /\ deployed' = deployed + 1
  /\ UNCHANGED << clock, last, routerVars, ruleVars, storeVars, appVars, cache, puts, freshest, answer >>

NextWorker == FetchEvent \/ CachePutCompletes \/ CachePutFails \/ ClearCache \/ Deploy

SpecWorker == Init /\ [][NextWorker]_vars

(***************************************************************************)
(* Properties of the service worker                                        *)
(***************************************************************************)

\* C22: whenever the handler has intercepted a request, the network fetch
\* has failed and the cache held no copy of the request, the handler has
\* answered with a fallback response: a stored page or the Offline response,
\* for a navigation as for any other request.  (Checked under SpecWorker.)
C22_OfflineFallbackAlways ==
  (answer.intercepted /\ answer.network = 0 /\ answer.from # "cache") =>
    /\ answer.response # NoResponse
    /\ answer.from \in { "index.html", "offline" }

\* C23 as stated: the network is asked first on every intercepted request, a
\* cached response is served only when the network fetch has failed, and a
\* response served from the cache is the last one the network gave for that
\* request with status 200.  (Checked under SpecWorker.)
C23_CacheHoldsFreshest ==
  answer.intercepted =>
    /\ answer.network # NotAsked
    /\ answer.from = "cache" =>
         /\ answer.network = 0
         /\ answer.response = Response(200, freshest[answer.request.path])

\* C23, amended: the network is asked first on every intercepted request; a
\* response from the cache or a fallback is served only when the network
\* fetch has failed; a fetch event the network answers with status 200
\* returns that response and starts an update of the request's cache entry
\* with it, which is still under way when the handler returns; no other
\* event starts an update; and a cache entry changes only by the completion
\* of an update started earlier, or by the cache being deleted, so an entry
\* is never newer than the last status 200 answer.  (Checked under SpecWorker.)
C23_NetworkFirstUpdateStarted ==
  [][ /\ answer'.intercepted =>
           /\ answer'.network # NotAsked
           /\ answer'.from # "network" => answer'.network = 0
      /\ (/\ answer'.intercepted
          /\ answer'.network = 200
          /\ cache' = cache
          /\ deployed' = deployed
          /\ Len(puts') >= Len(puts)) =>
           /\ answer'.response = Response(200, deployed)
           /\ answer'.from = "network"
           /\ puts' = Append(puts, CachePut(answer'.request.path, deployed))
           /\ freshest'[answer'.request.path] = deployed
      /\ Len(puts') > Len(puts) => answer'.network = 200
      /\ \A url \in Urls :
           /\ cache'[url] # cache[url] =>
                \/ cache'[url] = 0
                \/ \E k \in 1..Len(puts) :
                     /\ puts[k] = CachePut(url, cache'[url])
                     /\ Len(puts') = Len(puts) - 1
           /\ cache'[url] <= freshest'[url]
    ]_vars

\* The network has failed on the script while its cache entry is still the
\* old version: the update with the newer response was started and has not
\* gone through.
C23_Witness ==
  /\ answer.intercepted
  /\ answer.request.path = "/app.js"
  /\ answer.network = 0
  /\ answer.from = "cache"
  /\ answer.response = Response(200, 1)
  /\ freshest["/app.js"] = 2

(***************************************************************************)
(* The histories at work                                                   *)
(***************************************************************************)

\* How many different inputs the json tool is given besides the one that
\* comes back: enough to overfill its history
MaxFresh == 51

\* The input given more than once
Recurring == 0

RECURSIVE MaxInput(_)
MaxInput(items) ==
  IF items = << >> THEN 0
  ELSE IF items[1].input > MaxInput(Tail(items)) THEN items[1].input
  ELSE MaxInput(Tail(items))

\* The inputs a call of history.add may bring: for json the recurring one or
\* one never given before, for regex one of two.
InputsFor(tool, items) ==
  IF tool = "json"
  THEN { Recurring } \cup { n \in { MaxInput(items) + 1 } : n <= MaxFresh }
  ELSE { Recurring, 1 }

\* history.add(tool, { input })
HistoryAdd ==
  \E tool \in HistoryTools, written \in BOOLEAN :
    \E input \in InputsFor(tool, histories[tool]) :
      /\ histories' = [histories EXCEPT
                         ![tool] = StorageSet(histories[tool],
                                              HistoryAdded(histories[tool], input, clock),
                                              written)]
      /\ added' = [tool |-> tool, input |-> input, stored |-> written]
      /\ UNCHANGED << clock, last, routerVars, ruleVars, workerVars, appVars >>

NextHistory == HistoryAdd

SpecHistory == Init /\ [][NextHistory]_vars

(***************************************************************************)
(* Properties of the histories                                             *)
(***************************************************************************)

\* At most maxItems items and no input twice, in every stored history.
HistoriesWellFormed ==
  \A tool \in HistoryTools :
    /\ Len(histories[tool]) <= maxItems
    /\ \A j, k \in 1..Len(histories[tool]) :
         j # k => histories[tool][j].input # histories[tool][k].input

\* C28 as stated: after every call of history.add each stored history has at
\* most 50 items and no input twice, the item just added is the first of its
\* tool's history, and no other tool's history has changed.  (Checked under
\* SpecHistory.)
C28_AddedItemIsFirst ==
  [][ /\ HistoriesWellFormed'
      /\ added'.tool \in HistoryTools =>
           /\ histories'[added'.tool] # << >>
           /\ histories'[added'.tool][1].input = added'.input
           /\ \A tool \in HistoryTools \ { added'.tool } : histories'[tool] = histories[tool]
    ]_vars

\* C28, amended: after every call of history.add each stored history has at
\* most 50 items and no input twice and no other tool's history has changed;
\* when the write to localStorage went through, the item just added is the
\* first of its tool's history, with the time of the call; when the write
\* failed the tool's history is as it was before.  (Checked under SpecHistory.)
C28_AddedItemIsFirstWhenStored ==
  [][ /\ HistoriesWellFormed'
      /\ added'.tool \in HistoryTools =>
           /\ added'.stored =>
                /\ histories'[added'.tool] # << >>
                /\ histories'[added'.tool][1] = HistoryItem(added'.input, clock)
           /\ \A tool \in HistoryTools \ { added'.tool } : histories'[tool] = histories[tool]
      /\ (added'.tool \in HistoryTools /\ ~added'.stored /\ added' # added) =>
           histories' = histories
    ]_vars

\* The json history is full, its oldest items have been dropped, and the
\* recurring input has just been added again and moved to the front.
C28_Witness ==
  /\ added = [tool |-> "json", input |-> Recurring, stored |-> TRUE]
  /\ Len(histories["json"]) = maxItems
  /\ histories["json"][1].input = Recurring
  /\ histories["json"][2].input = MaxFresh
  /\ histories["json"][maxItems].input = MaxFresh - maxItems + 2
  /\ Len(histories["regex"]) = 2

(***************************************************************************)
(* The application at work                                                 *)
(***************************************************************************)

TheApp == App(currentTool, current, instances, lastTool)

\* A call of switchTool(toolKey)
SwitchTool ==
  \E toolKey \in SwitchKeys, written \in BOOLEAN :
    LET Switched(app) ==
          /\ currentTool' = app.currentTool
          /\ current' = app.current
          /\ instances' = app.instances
          /\ lastTool' = app.lastTool
    IN  /\ ToolDefinition(toolKey) = "definition" => NewPlace(PreviousDestroyed(TheApp)) # 0
        /\ Switched(switchTool(TheApp, toolKey, written))
        /\ switched' = [key |-> toolKey,
                        stored |-> IF ToolDefinition(toolKey) = "definition" THEN written
                                   ELSE switched.stored]
        /\ UNCHANGED << clock, last, routerVars, ruleVars, workerVars, storeVars, ran >>

\* A click on the live toggle of the Unix time converter on the page
LiveToggleClick ==
  /\ current # 0
  /\ instances[current].tool = "timestamp"
  /\ ~instances[current].destroyed
  /\ instances' = [instances EXCEPT ![current] = liveToggleClick(@)]
  /\ UNCHANGED << clock, last, routerVars, ruleVars, workerVars, storeVars,
                  currentTool, current, lastTool, switched, ran >>

\* An input event on the debounced field of the tool on the page
InputEvent ==
  /\ current # 0
  /\ instances[current].tool \in ToolKeys \ { "timestamp" }
  /\ ~instances[current].destroyed
  /\ instances' = [instances EXCEPT ![current] = inputEvent(@)]
  /\ UNCHANGED << clock, last, routerVars, ruleVars, workerVars, storeVars,
                  currentTool, current, lastTool, switched, ran >>

\* An interval timer of a Unix time converter fires: its callback runs.
LiveTick ==
  \E p \in 1..MaxInstances :
    /\ instances[p].intervals > 0
    /\ ran' = [kind |-> "live", destroyed |-> instances[p].destroyed]
    /\ UNCHANGED << clock, last, routerVars, ruleVars, workerVars, storeVars,
                    currentTool, current, instances, lastTool, switched >>

\* The timeout of a debounced input handler fires: this.processInput() (or
\* processRegex, process) runs on the instance that set it.
DebounceFires ==
  \E p \in 1..MaxInstances :
    LET Fired(app) == instances' = app.instances IN
    /\ instances[p].pending
    /\ ran' = [kind |-> "debounce", destroyed |-> instances[p].destroyed]
    /\ Fired(Collected([TheApp EXCEPT !.instances[p].pending = FALSE]))
    /\ UNCHANGED << clock, last, routerVars, ruleVars, workerVars, storeVars,
                    currentTool, current, lastTool, switched >>

NextApp == SwitchTool \/ LiveToggleClick \/ InputEvent \/ LiveTick \/ DebounceFires

SpecApp == Init /\ [][NextApp]_vars

(***************************************************************************)
(* Properties of the application                                           *)
(***************************************************************************)

\* The instances destroy() has not been called on
LiveInstances(all) == { p \in 1..MaxInstances : all[p].tool \in ToolKeys /\ ~all[p].destroyed }

\* C27: after every call of switchTool, currentTool is one of the five tool
\* keys, the stored lastTool preference equals currentTool (as long as the
\* last write of the preference went through) and at most one instance is
\* live; and a call with a key that is none of the five leaves currentTool,
\* the current instance and the preference as they were.  (Checked under
\* SpecApp.)
C27_SwitchToolKeepsOneTool ==
  [][ /\ currentTool' \in ToolKeys
      /\ switched'.stored => lastTool' = currentTool'
      /\ Cardinality(LiveInstances(instances')) <= 1
      /\ (switched' # switched /\ switched'.key \notin ToolKeys) =>
           /\ currentTool' = currentTool
           /\ current' = current
           /\ instances' = instances
           /\ lastTool' = lastTool
    ]_vars

\* C29: a Unix time converter has at most one live-update timer active,
\* whatever clicks its live toggle got; a destroyed one has none; and no
\* live-update callback has run on a destroyed instance.  (Checked under
\* SpecApp.)
C29_OneLiveTimerNoneAfterDestroy ==
  /\ \A p \in 1..MaxInstances :
       /\ instances[p].intervals <= 1
       /\ instances[p].intervals = 1 <=> instances[p].liveInterval
       /\ instances[p].destroyed => instances[p].intervals = 0
       /\ instances[p].tool # "timestamp" => instances[p].intervals = 0
  /\ ran.kind = "live" => ~ran.destroyed

\* The live update has ticked, and the application has since switched from
\* the Unix time converter to the regex tester: no interval timer is left.
C29_Witness ==
  /\ ran = [kind |-> "live", destroyed |-> FALSE]
  /\ currentTool = "regex"
  /\ \A p \in 1..MaxInstances : instances[p].intervals = 0 /\ instances[p].tool # "timestamp"

\* C30: no debounced processing callback runs on an instance that has been
\* destroyed.  (Checked under SpecApp.)
C30_NoDebounceAfterDestroy ==
  ran.kind = "debounce" => ~ran.destroyed

====
